---- MODULE Spec2Model ----
(***************************************************************************)
(* Query pipeline of csv-query-bot: a SQL statement travels from a client  *)
(* (LLMQueryService.executeQueryPlan, or handleDeepDive calling the        *)
(* database function directly) through the execute-query edge function to  *)
(* the database function execute_safe_query; the rows that come back are   *)
(* reduced to funnel metrics by prepareFunnelData / processDimensionalData.*)
(*                                                                         *)
(* Text is modelled as a sequence of one-character strings, so that trim,  *)
(* toLowerCase, startsWith, includes and the regular-expression match are  *)
(* computed character by character as the code computes them.              *)
(***************************************************************************)
EXTENDS Integers, Sequences, FiniteSets, TLC

VARIABLES
    userQuery,  \* the text the user typed
    liveValues, \* the distinct values the data holds for the column that is looked up
    stmt,       \* the SQL text the client hands over (plan.sqlQuery / sql)
    client,     \* which caller runs: "llmQueryService", "part_011", "handleDeepDive"
    edge,       \* which execute-query revision is deployed: "index", "part_000", "none" (direct rpc)
    pc,         \* position of the request: "edge", "db", "dbdone", "reply", "done"
    dbQuery,    \* query_text received by execute_safe_query
    executed,   \* what execute_safe_query handed to EXECUTE, if anything
    dbResult,   \* the json value execute_safe_query returned
    reply,      \* what the transport delivers to the client
    result      \* the value the client function produced

vars == <<userQuery, liveValues, stmt, client, edge, pc, dbQuery, executed, dbResult, reply, result>>

(***************************************************************************)
(* Bounds of the model.                                                    *)
(***************************************************************************)
MaxPieces == 3      \* a statement is a concatenation of at most this many fragments
MaxRows == 3        \* length of a result-row list of the funnel specification
MaxDimRows == 4     \* length of a result-row list of the breakdown specification

(***************************************************************************)
(* Characters and strings.                                                 *)
(***************************************************************************)
Upper == <<"A", "B", "C", "D", "E", "F", "G", "H", "I", "J", "K", "L", "M", "N", "O", "P", "Q", "R", "S", "T", "U", "V", "W", "X", "Y", "Z">>
Lower == <<"a", "b", "c", "d", "e", "f", "g", "h", "i", "j", "k", "l", "m", "n", "o", "p", "q", "r", "s", "t", "u", "v", "w", "x", "y", "z">>

\* the backspace character U+0008, written as a token of its own
BS == "<BS>"

\* white space removed by String.prototype.trim (the members that occur here)
JsWhiteSpace == {" ", "\t", "\n", "\r", "\f"}

\* PostgreSQL trim(text) with no character list removes spaces only
PgTrimChars == {" "}

LowerOf == [c \in {Upper[i] : i \in 1..Len(Upper)} |-> Lower[CHOOSE i \in 1..Len(Upper) : Upper[i] = c]]

lowerChar(c) == IF c \in DOMAIN LowerOf THEN LowerOf[c] ELSE c

toLowerCase(s) == [i \in 1..Len(s) |-> lowerChar(s[i])]

RECURSIVE trimStart(_, _)
trimStart(s, ws) ==
    IF s # <<>> /\ Head(s) \in ws THEN trimStart(Tail(s), ws) ELSE s

RECURSIVE trimEnd(_, _)
trimEnd(s, ws) ==
    IF s # <<>> /\ s[Len(s)] \in ws THEN trimEnd(SubSeq(s, 1, Len(s) - 1), ws) ELSE s

trim(s, ws) == trimEnd(trimStart(s, ws), ws)

startsWith(s, p) == Len(s) >= Len(p) /\ SubSeq(s, 1, Len(p)) = p

includes(s, p) ==
    \E i \in 1..(Len(s) - Len(p) + 1) : SubSeq(s, i, i + Len(p) - 1) = p

(***************************************************************************)
(* Literals of the code.                                                   *)
(***************************************************************************)
kw_select == <<"s", "e", "l", "e", "c", "t">>
kw_insert == <<"i", "n", "s", "e", "r", "t">>
kw_update == <<"u", "p", "d", "a", "t", "e">>
kw_delete == <<"d", "e", "l", "e", "t", "e">>
kw_drop == <<"d", "r", "o", "p">>
kw_create == <<"c", "r", "e", "a", "t", "e">>
kw_alter == <<"a", "l", "t", "e", "r">>
kw_truncate == <<"t", "r", "u", "n", "c", "a", "t", "e">>
kw_grant == <<"g", "r", "a", "n", "t">>
kw_revoke == <<"r", "e", "v", "o", "k", "e">>

\* part_000:34, in the order the loop visits them
forbiddenKeywords == <<kw_drop, kw_delete, kw_insert, kw_update, kw_alter, kw_create, kw_truncate>>

\* part_002:20, the alternation of the regular expression
dbForbiddenKeywords == <<kw_insert, kw_update, kw_delete, kw_drop, kw_create, kw_alter, kw_truncate, kw_grant, kw_revoke>>

MsgOnlySelect == <<"O", "n", "l", "y", " ", "S", "E", "L", "E", "C", "T", " ", "q", "u", "e", "r", "i", "e", "s", " ", "a", "r", "e", " ", "a", "l", "l", "o", "w", "e", "d">>
MsgForbiddenPrefix == <<"F", "o", "r", "b", "i", "d", "d", "e", "n", " ", "k", "e", "y", "w", "o", "r", "d", " ", "d", "e", "t", "e", "c", "t", "e", "d", ":", " ">>
MsgDbForbidden == <<"Q", "u", "e", "r", "y", " ", "c", "o", "n", "t", "a", "i", "n", "s", " ", "f", "o", "r", "b", "i", "d", "d", "e", "n", " ", "k", "e", "y", "w", "o", "r", "d", "s">>
\* SQLERRM of a statement PostgreSQL cannot run (a sample of what EXECUTE raises)
MsgSyntaxError == <<"s", "y", "n", "t", "a", "x", " ", "e", "r", "r", "o", "r", " ", "a", "t", " ", "o", "r", " ", "n", "e", "a", "r">>
\* the transport's own message for a failed rpc call
MsgTransport == <<"f", "e", "t", "c", "h", " ", "f", "a", "i", "l", "e", "d">>

ExecutePrefix == <<"S", "E", "L", "E", "C", "T", " ", "j", "s", "o", "n", "_", "a", "g", "g", "(", "r", "o", "w", "_", "t", "o", "_", "j", "s", "o", "n", "(", "t", ")", ")", " ", "F", "R", "O", "M", " ", "(">>
ExecuteSuffix == <<")", " ", "t">>

(***************************************************************************)
(* The statements the model submits: concatenations of these fragments.    *)
(***************************************************************************)
P_select == <<"s", "e", "l", "e", "c", "t", " ">>
P_SeLeCt == <<"S", "e", "L", "e", "C", "t", " ">>
P_star == <<"*", " ", "f", "r", "o", "m", " ", "t", ";", " ">>
P_DROP == <<"D", "R", "O", "P", " ", "T", "A", "B", "L", "E", " ", "t">>
P_DeLeTe == <<"D", "e", "L", "e", "T", "e", " ", "f", "r", "o", "m", " ", "t">>
P_Grant == <<"G", "r", "a", "n", "t">>
P_updated == <<"u", "p", "d", "a", "t", "e", "d", "_", "a", "t">>
P_bsdrop == <<BS, "d", "r", "o", "p", BS>>

Pieces == {P_select, P_SeLeCt, <<" ">>, <<"\t">>, P_star, P_DROP, P_DeLeTe, P_Grant, P_updated, P_bsdrop}

RECURSIVE StatementsOfLen(_)
StatementsOfLen(n) ==
    IF n = 0 THEN {<<>>}
    ELSE {p \o s : p \in Pieces, s \in StatementsOfLen(n - 1)}

Statements == UNION {StatementsOfLen(n) : n \in 0..MaxPieces}

(***************************************************************************)
(* Result rows.  A row is a JSON object: a function from the names of the  *)
(* fields it carries to their values; an absent field is JavaScript's      *)
(* undefined.  category_1 is text; the count fields are numbers;           *)
(* dimension_value is a JSON string or JSON null.                          *)
(***************************************************************************)
Has(row, f) == f \in DOMAIN row

JsonNull == [t |-> "null"]
JsonString(v) == [t |-> "string", v |-> v]

s_deliver == <<"d", "e", "l", "i", "v", "e", "r">>
s_open == <<"o", "p", "e", "n">>
s_click == <<"c", "l", "i", "c", "k">>
s_adopt == <<"a", "d", "o", "p", "t">>
s_convert == <<"c", "o", "n", "v", "e", "r", "t">>
s_conversion == <<"c", "o", "n", "v", "e", "r", "s", "i", "o", "n">>
s_complete == <<"c", "o", "m", "p", "l", "e", "t", "e">>

\* row.category_1?.toLowerCase() || ''
categoryOf(row) ==
    IF Has(row, "category_1") THEN toLowerCase(row.category_1) ELSE <<>>

\* a number is truthy when it is present and not 0
TruthyNumber(row, f) == Has(row, f) /\ row[f] # 0

\* row.customers || row.total_customers || row.customers_1 || 0
customersOf(row) ==
    IF TruthyNumber(row, "customers") THEN row.customers
    ELSE IF TruthyNumber(row, "total_customers") THEN row.total_customers
    ELSE IF TruthyNumber(row, "customers_1") THEN row.customers_1
    ELSE 0

\* row.total_customers || row.customers_1 || 0
customersOf_part011(row) ==
    IF TruthyNumber(row, "total_customers") THEN row.total_customers
    ELSE IF TruthyNumber(row, "customers_1") THEN row.customers_1
    ELSE 0

\* record.customers_1 || 0
countOf_part003(record) ==
    IF TruthyNumber(record, "customers_1") THEN record.customers_1 ELSE 0

\* the if / else-if chain of prepareFunnelData: the first test that succeeds decides
bucketLastWins(category) ==
    IF includes(category, s_adopt) \/ includes(category, s_convert) \/ includes(category, s_complete)
    THEN "adoptions"
    ELSE IF includes(category, s_click) THEN "clicks"
    ELSE IF includes(category, s_open) THEN "opens"
    ELSE IF includes(category, s_deliver) THEN "deliveries"
    ELSE "none"

bucketOf(category) ==
    IF includes(category, s_deliver) THEN "deliveries"
    ELSE IF includes(category, s_open) THEN "opens"
    ELSE IF includes(category, s_click) THEN "clicks"
    ELSE IF includes(category, s_adopt) \/ includes(category, s_convert) \/ includes(category, s_complete)
    THEN "adoptions"
    ELSE "none"

bucketOf_part011(category) ==
    IF includes(category, s_deliver) THEN "deliveries"
    ELSE IF includes(category, s_open) THEN "opens"
    ELSE IF includes(category, s_click) THEN "clicks"
    ELSE IF includes(category, s_adopt) \/ includes(category, s_conversion) \/ includes(category, s_complete)
    THEN "adoptions"
    ELSE "none"

bucketOf_part003(category) ==
    IF includes(category, s_deliver) THEN "deliveries"
    ELSE IF includes(category, s_open) THEN "opens"
    ELSE IF includes(category, s_click) THEN "clicks"
    ELSE "none"

ZeroCounts == [deliveries |-> 0, opens |-> 0, clicks |-> 0, adoptions |-> 0]

\* funnelData[bucket] = customers: the sum replaced by an assignment
addToOverwrite(funnelData, bucket, customers) ==
    IF bucket = "none" THEN funnelData
    ELSE [funnelData EXCEPT ![bucket] = customers]

\* funnelData[bucket] += customers
addTo(funnelData, bucket, customers) ==
    IF bucket = "none" THEN funnelData
    ELSE [funnelData EXCEPT ![bucket] = @ + customers]

\* data.forEach(row => ...) of llmQueryService.ts, rows i..Len(data) applied in order
RECURSIVE forEachRow(_, _, _)
forEachRow(data, i, funnelData) ==
    IF i > Len(data) THEN funnelData
    ELSE forEachRow(data, i + 1,
                    addTo(funnelData, bucketOf(categoryOf(data[i])), customersOf(data[i])))

RECURSIVE forEachRow_part011(_, _, _)
forEachRow_part011(data, i, funnelData) ==
    IF i > Len(data) THEN funnelData
    ELSE forEachRow_part011(data, i + 1,
                    addTo(funnelData, bucketOf_part011(categoryOf(data[i])), customersOf_part011(data[i])))

RECURSIVE reduceRecords_part003(_, _, _)
reduceRecords_part003(records, i, acc) ==
    IF i > Len(records) THEN acc
    ELSE reduceRecords_part003(records, i + 1,
                    addTo(acc, bucketOf_part003(categoryOf(records[i])), countOf_part003(records[i])))

(***************************************************************************)
(* Rates.  (a / b) * 100 is a fraction num/den in lowest terms; den = 0    *)
(* stands for the non-finite results of the division: 0/0 is NaN (num 0)   *)
(* and n/0 is Infinity (num 1).  The fraction is exact where the code      *)
(* rounds to a double; the rounding is monotone and exact at 0 and at 100. *)
(***************************************************************************)
RECURSIVE GCD(_, _)
GCD(a, b) == IF b = 0 THEN a ELSE GCD(b, a % b)

NaN == [num |-> 0, den |-> 0]
Infinity == [num |-> 1, den |-> 0]
ZeroRate == [num |-> 0, den |-> 1]
Percent(n) == [num |-> n, den |-> 1]

\* (a / b) * 100
ratioTimes100(a, b) ==
    IF b = 0 THEN (IF a = 0 THEN NaN ELSE Infinity)
    ELSE LET g == GCD(a * 100, b) IN [num |-> (a * 100) \div g, den |-> b \div g]

\* d > 0 ? (n / d) * 100 : 0, without the guard
rateUnguarded(n, d) == ratioTimes100(n, d)

\* d > 0 ? (n / d) * 100 : 0
rate(n, d) == IF d > 0 THEN ratioTimes100(n, d) ELSE ZeroRate

IsFinite(r) == r.den # 0
RateAtMost100(r) == r.den # 0 /\ r.num <= 100 * r.den
RateAtLeast0(r) == r.den # 0 /\ r.num >= 0

\* LLMQueryService.prepareFunnelData of llmQueryService.ts
prepareFunnelData(data) ==
    LET funnelData == forEachRow(data, 1, ZeroCounts) IN
    [deliveries |-> funnelData.deliveries,
     opens |-> funnelData.opens,
     clicks |-> funnelData.clicks,
     adoptions |-> funnelData.adoptions,
     openRate |-> rate(funnelData.opens, funnelData.deliveries),
     clickThroughRate |-> rate(funnelData.clicks, funnelData.deliveries),
     clickThroughOpenRate |-> rate(funnelData.clicks, funnelData.opens),
     adoptionRate |-> rate(funnelData.adoptions, funnelData.deliveries)]

\* LLMQueryService.prepareFunnelData of the revision in part_011
prepareFunnelData_part011(data) ==
    LET funnelData == forEachRow_part011(data, 1, ZeroCounts) IN
    [deliveries |-> funnelData.deliveries,
     opens |-> funnelData.opens,
     clicks |-> funnelData.clicks,
     adoptions |-> funnelData.adoptions,
     openRate |-> rate(funnelData.opens, funnelData.deliveries),
     clickRate |-> rate(funnelData.clicks, funnelData.deliveries),
     clickThroughOpenRate |-> rate(funnelData.clicks, funnelData.opens),
     adoptionRate |-> rate(funnelData.adoptions, funnelData.clicks)]

\* calculateFunnelMetrics of part_003 (no adoption stage)
calculateFunnelMetrics(deliveries, opens, clicks) ==
    [deliveries |-> deliveries,
     opens |-> opens,
     clicks |-> clicks,
     openRate |-> rate(opens, deliveries),
     clickThroughRate |-> rate(clicks, deliveries),
     clickThroughOpenRate |-> rate(clicks, opens)]

getFunnelDataFromRecords(records) ==
    LET funnelData == reduceRecords_part003(records, 1, [deliveries |-> 0, opens |-> 0, clicks |-> 0]) IN
    calculateFunnelMetrics(funnelData.deliveries, funnelData.opens, funnelData.clicks)

(***************************************************************************)
(* Breakdown results.                                                      *)
(***************************************************************************)
\* row.dimension_value || 'Unknown', with the falsy test left out
dimensionKeyNoDefault(row) ==
    IF Has(row, "dimension_value") /\ row.dimension_value.t = "string"
    THEN row.dimension_value.v
    ELSE ""

\* row.dimension_value || 'Unknown'
dimensionKey(row) ==
    IF Has(row, "dimension_value")
       /\ row.dimension_value.t = "string"
       /\ row.dimension_value.v # ""
    THEN row.dimension_value.v
    ELSE "Unknown"

\* dimensionGroups with every row replacing the rows of its key
dimensionGroupsLastRow(data) ==
    LET keys == {dimensionKey(data[i]) : i \in 1..Len(data)}
        OfKey(k) == LET Test(row) == dimensionKey(row) = k
                        rows == SelectSeq(data, Test)
                    IN  <<rows[Len(rows)]>>
    IN [k \in keys |-> OfKey(k)]

\* dimensionGroups: the rows of each key, in their order of arrival
dimensionGroups(data) ==
    LET keys == {dimensionKey(data[i]) : i \in 1..Len(data)}
        OfKey(k) == LET Test(row) == dimensionKey(row) = k IN SelectSeq(data, Test)
    IN [k \in keys |-> OfKey(k)]

\* LLMQueryService.processDimensionalData
processDimensionalData(data) ==
    LET groups == dimensionGroups(data) IN
    [k \in DOMAIN groups |-> prepareFunnelData(groups[k])]

\* actualData.some(row => row.dimension_value !== undefined)
hasDimensionalData(actualData) ==
    \E i \in 1..Len(actualData) : Has(actualData[i], "dimension_value")

(***************************************************************************)
(* The rows the model feeds to the aggregators.                            *)
(***************************************************************************)
L_Deliveries == <<"D", "e", "l", "i", "v", "e", "r", "i", "e", "s">>
L_DELIVERED == <<"D", "E", "L", "I", "V", "E", "R", "E", "D">>
L_Opens == <<"O", "p", "e", "n", "s">>
L_Clicks == <<"C", "l", "i", "c", "k", "s">>
L_Adoptions == <<"A", "d", "o", "p", "t", "i", "o", "n", "s">>
L_Converted == <<"C", "o", "n", "v", "e", "r", "t", "e", "d">>
L_Completed == <<"C", "o", "m", "p", "l", "e", "t", "e", "d">>
L_Bounced == <<"B", "o", "u", "n", "c", "e", "d">>
L_Click_to_Open == <<"C", "l", "i", "c", "k", "-", "t", "o", "-", "O", "p", "e", "n">>

CategoryRow(label, n) == [category_1 |-> label, customers |-> n]
DimensionRow(label, n, d) == [category_1 |-> label, customers |-> n, dimension_value |-> d]
PivotedRow == [region |-> "Americas", deliveries |-> 3, opens |-> 2, clicks |-> 1, adoptions |-> 1]

FunnelRows ==
    { CategoryRow(L_Deliveries, 2),
      [category_1 |-> L_DELIVERED, total_customers |-> 3, customers_1 |-> 3, acq_region_1 |-> "EMEA"],
      [category_1 |-> L_Opens, total_customers |-> 3],
      [category_1 |-> L_Clicks, total_customers |-> 1, customers_1 |-> 1],
      CategoryRow(L_Adoptions, 1),
      [category_1 |-> L_Converted, customers |-> 0, total_customers |-> 1],
      [category_1 |-> L_Completed, customers_1 |-> 2],
      CategoryRow(L_Bounced, 5),
      [customers |-> 4],
      CategoryRow(L_Click_to_Open, 1),
      PivotedRow,
      DimensionRow(L_Deliveries, 2, JsonString("EMEA")) }

DimensionRows ==
    { DimensionRow(L_Deliveries, 2, JsonString("Americas")),
      DimensionRow(L_Opens, 1, JsonString("Americas")),
      DimensionRow(L_Deliveries, 3, JsonString("EMEA")),
      DimensionRow(L_Deliveries, 1, JsonString("APAC")),
      DimensionRow(L_Deliveries, 4, JsonNull),
      DimensionRow(L_Opens, 1, JsonString("")),
      DimensionRow(L_Deliveries, 1, JsonString("Unknown")),
      CategoryRow(L_Clicks, 1) }

RECURSIVE RowListsOfLen(_, _)
RowListsOfLen(rows, n) ==
    IF n = 0 THEN {<<>>}
    ELSE {Append(l, r) : l \in RowListsOfLen(rows, n - 1), r \in rows}

RowLists(rows, n) == UNION {RowListsOfLen(rows, k) : k \in 0..n}

\* what EXECUTE can come to in the pipeline specification
ExecOutcomes ==
    { [tag |-> "null"],
      [tag |-> "rows", rows |-> <<CategoryRow(L_Deliveries, 2), CategoryRow(L_Opens, 1)>>],
      [tag |-> "rows", rows |-> <<DimensionRow(L_Deliveries, 2, JsonString("EMEA"))>>],
      [tag |-> "raise", message |-> MsgSyntaxError, code |-> "42601"] }

(***************************************************************************)
(* JSON values and transport.                                              *)
(***************************************************************************)
JsonRows(rows) == [tag |-> "rows", rows |-> rows]
JsonErrorObject(message, code) == [tag |-> "object", error |-> TRUE, message |-> message, code |-> code]
RpcError(message) == [tag |-> "rpc-error", message |-> message]
NoResult == [tag |-> "none"]

NotExecuted == [ran |-> FALSE]
Executed(text) == [ran |-> TRUE, text |-> text]

NoReply == [status |-> "none"]
Http200(body) == [status |-> "200", body |-> body]
Http500(message) == [status |-> "500", body |-> [error |-> message]]
FetchFailed == [status |-> "fetch-failed"]

Pending == [answer |-> "pending"]

(***************************************************************************)
(* The execute-query edge function, two revisions.                         *)
(***************************************************************************)
\* sanitizedQuery.toLowerCase().includes('select'): the test with the wrong method
isSelectAnywhere(sanitizedQuery) == includes(toLowerCase(sanitizedQuery), kw_select)

\* sanitizedQuery.toLowerCase().startsWith('select')
isSelect(sanitizedQuery) == startsWith(toLowerCase(sanitizedQuery), kw_select)

\* for (const keyword of forbiddenKeywords) if (queryLower.includes(keyword)) throw:
\* the index of the first keyword of the list the text includes, 0 when there is none
firstForbidden(queryLower) ==
    LET hits == {i \in 1..Len(forbiddenKeywords) : includes(queryLower, forbiddenKeywords[i])}
    IN IF hits = {} THEN 0 ELSE CHOOSE i \in hits : \A j \in hits : i <= j

Accept(query) == [ok |-> TRUE, query |-> query]
Reject(message) == [ok |-> FALSE, message |-> message]

\* supabase/functions/execute-query/index.ts: what the handler does before it calls rpc
validate_index(query) ==
    LET sanitizedQuery == trim(query, JsWhiteSpace) IN
    IF ~isSelect(sanitizedQuery) THEN Reject(MsgOnlySelect)
    ELSE Accept(sanitizedQuery)

\* part_000: the revision with the keyword list
validate_part000(query) ==
    LET sanitizedQuery == trim(query, JsWhiteSpace)
        queryLower == toLowerCase(sanitizedQuery)
        k == firstForbidden(queryLower)
    IN IF ~isSelect(sanitizedQuery) THEN Reject(MsgOnlySelect)
       ELSE IF k # 0 THEN Reject(MsgForbiddenPrefix \o forbiddenKeywords[k])
       ELSE Accept(sanitizedQuery)

(***************************************************************************)
(* The database function execute_safe_query (part_002).                    *)
(***************************************************************************)
\* clean_query := lower(trim(query_text))
clean_query(query_text) == toLowerCase(trim(query_text, PgTrimChars))

\* clean_query LIKE 'select%'
likeSelect(cq) == startsWith(cq, kw_select)

\* clean_query ~* '\b(insert|...|revoke)\b'.  In a PostgreSQL regular expression
\* \b is the backspace character (the word boundary is \y), so the pattern
\* asks for a keyword between two backspace characters.
matchesForbidden(cq) ==
    \E i \in 1..Len(dbForbiddenKeywords) :
        includes(toLowerCase(cq), <<BS>> \o dbForbiddenKeywords[i] \o <<BS>>)

\* the function body: the value returned and what was handed to EXECUTE, for one
\* outcome of running the statement
execute_safe_query(query_text, outcome) ==
    LET cq == clean_query(query_text) IN
    IF ~likeSelect(cq)
    THEN [result |-> JsonErrorObject(MsgOnlySelect, "P0001"), executed |-> NotExecuted]
    ELSE IF matchesForbidden(cq)
    THEN [result |-> JsonErrorObject(MsgDbForbidden, "P0001"), executed |-> NotExecuted]
    ELSE [result |-> CASE outcome.tag = "null" -> JsonRows(<<>>)
                       [] outcome.tag = "rows" -> JsonRows(outcome.rows)
                       [] outcome.tag = "raise" -> JsonErrorObject(outcome.message, outcome.code),
          executed |-> Executed(ExecutePrefix \o query_text \o ExecuteSuffix)]

(***************************************************************************)
(* Actions of the transport, the edge function and the database.           *)
(***************************************************************************)
\* supabase.functions.invoke fails before the edge function runs
InvokeFails ==
    /\ pc = "edge"
    /\ reply' = FetchFailed
    /\ pc' = "reply"
    /\ UNCHANGED <<userQuery, liveValues, stmt, client, edge, dbQuery, executed, dbResult, result>>

\* v is what the handler's validation made of the query
EdgeReceive(v) ==
    /\ pc = "edge"
    /\ IF v.ok
       THEN /\ dbQuery' = v.query
            /\ pc' = "db"
            /\ UNCHANGED reply
       ELSE /\ reply' = Http500(v.message)
            /\ pc' = "reply"
            /\ UNCHANGED dbQuery
    /\ UNCHANGED <<userQuery, liveValues, stmt, client, edge, executed, dbResult, result>>

EdgeIndexReceive == edge = "index" /\ EdgeReceive(validate_index(stmt))

EdgePart000Receive == edge = "part_000" /\ EdgeReceive(validate_part000(stmt))

\* the rpc call does not reach the database
RpcFails ==
    /\ pc = "db"
    /\ dbResult' = RpcError(MsgTransport)
    /\ pc' = "dbdone"
    /\ UNCHANGED <<userQuery, liveValues, stmt, client, edge, dbQuery, executed, reply, result>>

ExecuteSafeQuery ==
    /\ pc = "db"
    /\ \E outcome \in ExecOutcomes :
         LET r == execute_safe_query(dbQuery, outcome) IN
         /\ dbResult' = r.result
         /\ executed' = r.executed
    /\ pc' = "dbdone"
    /\ UNCHANGED <<userQuery, liveValues, stmt, client, edge, dbQuery, reply, result>>

\* if (error) throw error ... return new Response(JSON.stringify({ data }))
EdgeReturn ==
    /\ pc = "dbdone"
    /\ reply' = IF dbResult.tag = "rpc-error"
                THEN Http500(dbResult.message)
                ELSE Http200([data |-> dbResult])
    /\ pc' = "reply"
    /\ UNCHANGED <<userQuery, liveValues, stmt, client, edge, dbQuery, executed, dbResult, result>>

EdgeIndexReturn == edge = "index" /\ EdgeReturn

\* part_000 also logs a read-only validation query when no rows came back
EdgePart000Return == edge = "part_000" /\ EdgeReturn

\* the caller of supabase.rpc('execute_safe_query') gets the json value itself
RpcReturn ==
    /\ pc = "dbdone"
    /\ edge = "none"
    /\ reply' = IF dbResult.tag = "rpc-error" THEN FetchFailed ELSE Http200(dbResult)
    /\ pc' = "reply"
    /\ UNCHANGED <<userQuery, liveValues, stmt, client, edge, dbQuery, executed, dbResult, result>>

(***************************************************************************)
(* The clients.  supabase.functions.invoke and supabase.rpc give           *)
(* {data, error}: error is set for a failed fetch and for a non-2xx        *)
(* response, and data is then null.                                        *)
(***************************************************************************)
invokeError(r) == r.status # "200"

\* queryResponse?.error
responseError(r) == r.status = "200" /\ Has(r.body, "error")

TruthyString(row, f) == Has(row, f) /\ row[f] # ""

\* LLMQueryService.prepareChartData
prepareChartData(data) ==
    IF Len(data) = 0 THEN JsonNull
    ELSE IF TruthyString(data[1], "month") \/ TruthyString(data[1], "quarter") \/ TruthyString(data[1], "week")
    THEN [type |-> "line",
          data |-> [i \in 1..Len(data) |->
                     [name |-> IF TruthyString(data[i], "month") THEN data[i].month
                               ELSE IF TruthyString(data[i], "quarter") THEN data[i].quarter
                               ELSE IF TruthyString(data[i], "week") THEN data[i].week
                               ELSE "undefined",
                      value |-> customersOf_part011(data[i]),
                      category |-> IF Has(data[i], "category_1") /\ data[i].category_1 # <<>>
                                   THEN data[i].category_1
                                   ELSE IF TruthyString(data[i], "program_name_1") THEN data[i].program_name_1
                                   ELSE "Unknown"]]]
    ELSE [type |-> "bar",
          data |-> [i \in 1..Len(data) |->
                     [name |-> IF TruthyString(data[i], "program_name_1") THEN data[i].program_name_1
                               ELSE IF TruthyString(data[i], "acq_region_1") THEN data[i].acq_region_1
                               ELSE "Unknown",
                      value |-> customersOf_part011(data[i])]]]

\* the catch block of executeQueryPlan in llmQueryService.ts
ExecutionFailure ==
    [answer |-> "Unable to process",
     followUps |-> "alternative queries",
     insights |-> <<"Query processing failed">>]

\* executeQueryPlan of llmQueryService.ts with the array taken for granted and no catch:
\* whatever came back is reduced as a row list
executeQueryPlanUnchecked(r) ==
    IF invokeError(r) \/ responseError(r) THEN ExecutionFailure
    ELSE LET actualData == IF r.body.data.tag = "rows" THEN r.body.data.rows ELSE <<>> IN
         [answer |-> "plan.intent",
          data |-> actualData,
          visualData |-> [type |-> "funnel", data |-> prepareFunnelData(actualData)],
          followUps |-> "dimensions",
          insights |-> <<>>]

\* LLMQueryService.executeQueryPlan of llmQueryService.ts, after the await
executeQueryPlan(r) ==
    IF invokeError(r) \/ responseError(r) THEN ExecutionFailure
    ELSE LET actualData == r.body.data IN
         \* an object that is no array has no .some: the TypeError lands in the catch
         IF actualData.tag # "rows" THEN ExecutionFailure
         ELSE IF hasDimensionalData(actualData.rows)
         THEN [answer |-> "plan.intent",
               data |-> actualData.rows,
               visualData |-> [type |-> "dimensional-funnel", data |-> processDimensionalData(actualData.rows)],
               followUps |-> "drill-downs",
               insights |-> <<>>]
         ELSE [answer |-> "plan.intent",
               data |-> actualData.rows,
               visualData |-> [type |-> "funnel", data |-> prepareFunnelData(actualData.rows)],
               followUps |-> "dimensions",
               insights |-> <<>>]

\* the catch block of executeQueryPlan in part_011 (validateDataAvailability
\* only reads, and never throws)
ExecutionFailure_part011 ==
    [answer |-> "I encountered an issue processing your query",
     followUps |-> "alternative queries",
     insights |-> <<"Query processing failed - try using available program and region names">>]

ExpectedVisualizations == {"table", "funnel", "chart", "text"}

\* what callLLM and JSON.parse come to: the call fails, the text is no JSON,
\* the object has none of the fields, or it has them all
LLMOutcomes == {"fails", "unparseable", "empty object", "full object"}

hasFunnelData(safeData) ==
    \E i \in 1..Len(safeData) :
        LET category == categoryOf(safeData[i]) IN
        \/ includes(category, s_deliver) \/ includes(category, s_open)
        \/ includes(category, s_click) \/ includes(category, s_adopt)

\* LLMQueryService.executeQueryPlan of part_011, after the await
executeQueryPlan_part011(r, expectedVisualization, llm) ==
    IF invokeError(r) THEN ExecutionFailure_part011
    ELSE IF responseError(r) THEN ExecutionFailure_part011
    ELSE LET actualData == r.body.data
             safeData == IF actualData.tag = "rows" THEN actualData.rows ELSE <<>>
             actualVisualization ==
                 IF hasFunnelData(safeData) /\ expectedVisualization = "table"
                 THEN "funnel" ELSE expectedVisualization
             visualData ==
                 IF actualVisualization = "table" /\ Len(safeData) > 0
                 THEN [type |-> "table", data |-> safeData]
                 ELSE IF actualVisualization = "chart" /\ Len(safeData) > 0
                 THEN [type |-> "chart", data |-> prepareChartData(safeData)]
                 ELSE IF actualVisualization = "funnel" /\ Len(safeData) > 0
                 THEN [type |-> "funnel", data |-> prepareFunnelData_part011(safeData)]
                 ELSE JsonNull
         IN IF llm \in {"fails", "unparseable"} THEN ExecutionFailure_part011
            ELSE [answer |-> IF llm = "full object" THEN "parsedResponse.answer" ELSE "Found n results",
                  data |-> safeData,
                  visualData |-> visualData,
                  followUps |-> IF llm = "full object" THEN "parsedResponse.followUps" ELSE "defaults",
                  insights |-> IF llm = "full object" THEN <<"parsedResponse.insights">>
                               ELSE <<"Found n records matching your criteria">>]

ExecuteQueryPlan ==
    /\ pc = "reply"
    /\ client = "llmQueryService"
    /\ result' = executeQueryPlan(reply)
    /\ pc' = "done"
    /\ UNCHANGED <<userQuery, liveValues, stmt, client, edge, dbQuery, executed, dbResult, reply>>

ExecuteQueryPlan_part011 ==
    /\ pc = "reply"
    /\ client = "part_011"
    /\ \E expectedVisualization \in ExpectedVisualizations, llm \in LLMOutcomes :
         result' = executeQueryPlan_part011(reply, expectedVisualization, llm)
    /\ pc' = "done"
    /\ UNCHANGED <<userQuery, liveValues, stmt, client, edge, dbQuery, executed, dbResult, reply>>

(***************************************************************************)
(* handleDeepDive (part_005) calls the database function directly.         *)
(***************************************************************************)
DeepDiveTypes == {"quarterly", "assignment", "regional"}

\* parseInt(row.count) || 0
assignmentCount(row) == IF TruthyNumber(row, "count") THEN row.count ELSE 0

assignmentStatus(row) == IF TruthyString(row, "assignment_status") THEN row.assignment_status ELSE "Unknown"

spendTier(row) == IF TruthyString(row, "spend_tier") THEN row.spend_tier ELSE "Unknown"

RECURSIVE sumAssignment(_, _)
sumAssignment(rows, i) ==
    IF i > Len(rows) THEN 0 ELSE assignmentCount(rows[i]) + sumAssignment(rows, i + 1)

\* the reduce over the rows and the map over its values: per status its count,
\* its share, and the same per spend tier
assignmentStats(data) ==
    LET statuses == {assignmentStatus(data[i]) : i \in 1..Len(data)}
        OfStatus(st) == LET Test(row) == assignmentStatus(row) = st IN SelectSeq(data, Test)
        OfTier(st, tr) == LET Test(row) == spendTier(row) = tr IN SelectSeq(OfStatus(st), Test)
        tiers(st) == {spendTier(OfStatus(st)[i]) : i \in 1..Len(OfStatus(st))}
        total == sumAssignment(data, 1)
    IN [st \in statuses |->
          [name |-> st,
           value |-> sumAssignment(OfStatus(st), 1),
           percentage |-> rate(sumAssignment(OfStatus(st), 1), total),
           spendTiers |-> [tr \in tiers(st) |->
                            [name |-> tr,
                             value |-> sumAssignment(OfTier(st, tr), 1),
                             percentage |-> rate(sumAssignment(OfTier(st, tr), 1),
                                                 sumAssignment(OfStatus(st), 1))]]]]

\* handleDeepDive after the await of supabase.rpc: a toast, or a bot message
handleDeepDive(r, optionType) ==
    IF invokeError(r) THEN [toast |-> "Failed to execute deep dive analysis"]
    ELSE LET data == r.body IN
         [message |-> "bot",
          visualData |-> [type |-> optionType,
                          data |-> IF optionType = "assignment" /\ data.tag = "rows"
                                   THEN assignmentStats(data.rows)
                                   ELSE data]]

HandleDeepDive ==
    /\ pc = "reply"
    /\ client = "handleDeepDive"
    /\ \E optionType \in DeepDiveTypes : result' = handleDeepDive(reply, optionType)
    /\ pc' = "done"
    /\ UNCHANGED <<userQuery, liveValues, stmt, client, edge, dbQuery, executed, dbResult, reply>>

(***************************************************************************)
(* analyzeFunnelPerformance (part_003) reads the table through the query   *)
(* builder and reduces the records itself.                                 *)
(***************************************************************************)
analyzeFunnelPerformance(r) ==
    IF invokeError(r) THEN JsonNull
    ELSE IF r.body.tag # "rows" \/ Len(r.body.rows) = 0 THEN JsonNull
    ELSE LET data == r.body.rows
             regions == {data[i].acq_region_1 : i \in {j \in 1..Len(data) : TruthyString(data[j], "acq_region_1")}}
             OfRegion(region) ==
                 LET Test(record) == Has(record, "acq_region_1") /\ record.acq_region_1 = region
                 IN SelectSeq(data, Test)
         IN [totalFunnel |-> getFunnelDataFromRecords(data),
             regionBreakdown |-> [region \in regions |-> getFunnelDataFromRecords(OfRegion(region))]]

AnalyzeFunnelPerformance ==
    /\ pc = "reply"
    /\ client = "ChatBot"
    /\ result' = analyzeFunnelPerformance(reply)
    /\ pc' = "done"
    /\ UNCHANGED <<userQuery, liveValues, stmt, client, edge, dbQuery, executed, dbResult, reply>>

(***************************************************************************)
(* Specifications.                                                         *)
(***************************************************************************)
Routes ==
    { <<"llmQueryService", "index">>, <<"llmQueryService", "part_000">>,
      <<"part_011", "index">>, <<"part_011", "part_000">>,
      <<"handleDeepDive", "none">> }

\* a request is about to leave the client
Init ==
    /\ userQuery = <<>>
    /\ liveValues = <<>>
    /\ stmt \in Statements
    /\ \E route \in Routes : client = route[1] /\ edge = route[2]
    /\ pc = IF edge = "none" THEN "db" ELSE "edge"
    /\ dbQuery = IF edge = "none" THEN stmt ELSE <<>>
    /\ executed = NotExecuted
    /\ dbResult = NoResult
    /\ reply = NoReply
    /\ result = Pending

Next ==
    \/ InvokeFails
    \/ EdgeIndexReceive
    \/ EdgePart000Receive
    \/ RpcFails
    \/ ExecuteSafeQuery
    \/ EdgeIndexReturn
    \/ EdgePart000Return
    \/ RpcReturn
    \/ ExecuteQueryPlan
    \/ ExecuteQueryPlan_part011
    \/ HandleDeepDive

Spec == Init /\ [][Next]_vars

\* the statement of a plan that ran: "select * from t; " is what the rows below answer
PlanStatement == P_select \o P_star

\* the rows have come back to the client
RowsArrived(rowLists, clients) ==
    /\ userQuery = <<>>
    /\ liveValues = <<>>
    /\ client \in clients
    /\ \E rows \in rowLists :
         /\ dbResult = JsonRows(rows)
         /\ reply = IF client = "ChatBot" THEN Http200(JsonRows(rows))
                    ELSE Http200([data |-> JsonRows(rows)])
    /\ edge = IF client = "ChatBot" THEN "none" ELSE "index"
    /\ stmt = IF client = "ChatBot" THEN <<>> ELSE PlanStatement
    /\ dbQuery = IF client = "ChatBot" THEN <<>> ELSE trim(PlanStatement, JsWhiteSpace)
    /\ executed = IF client = "ChatBot" THEN NotExecuted
                  ELSE Executed(ExecutePrefix \o trim(PlanStatement, JsWhiteSpace) \o ExecuteSuffix)
    /\ pc = "reply"
    /\ result = Pending

\* the rows Deliveries 100, Opens 40, Clicks 10
ExampleRows == <<CategoryRow(L_Deliveries, 100), CategoryRow(L_Opens, 40), CategoryRow(L_Clicks, 10)>>

InitFunnel ==
    RowsArrived(RowLists(FunnelRows, MaxRows) \cup {ExampleRows}, {"llmQueryService", "part_011", "ChatBot"})

NextFunnel ==
    \/ ExecuteQueryPlan
    \/ ExecuteQueryPlan_part011
    \/ AnalyzeFunnelPerformance

SpecFunnel == InitFunnel /\ [][NextFunnel]_vars

InitDimensional == RowsArrived(RowLists(DimensionRows, MaxDimRows), {"llmQueryService"})

NextDimensional == ExecuteQueryPlan

SpecDimensional == InitDimensional /\ [][NextDimensional]_vars

(***************************************************************************)
(* What the properties speak of.                                           *)
(***************************************************************************)
Digits == {"0", "1", "2", "3", "4", "5", "6", "7", "8", "9"}
WordChars == {Upper[i] : i \in 1..Len(Upper)} \cup {Lower[i] : i \in 1..Len(Lower)} \cup Digits \cup {"_"}

\* kw occurs in s as a whole word: no letter, digit or underscore on either side
containsWord(s, kw) ==
    \E i \in 1..(Len(s) - Len(kw) + 1) :
        /\ SubSeq(s, i, i + Len(kw) - 1) = kw
        /\ (i = 1 \/ s[i - 1] \notin WordChars)
        /\ (i + Len(kw) - 1 = Len(s) \/ s[i + Len(kw)] \notin WordChars)

NineKeywords == {kw_insert, kw_update, kw_delete, kw_drop, kw_create, kw_alter, kw_truncate, kw_grant, kw_revoke}

\* the statement, trimmed of surrounding white space and lower-cased, starts with select
StartsWithSelect == startsWith(toLowerCase(trim(stmt, JsWhiteSpace)), kw_select)

\* the statement holds one of the nine keywords as a whole word, in any letter case
HoldsKeyword == \E kw \in NineKeywords : containsWord(toLowerCase(stmt), kw)

Forwarded == pc \in {"db", "dbdone"} \/ dbResult # NoResult \/ executed # NotExecuted

\* C1: at the edge function and at the database function alike, a statement that
\* does not start with select once trimmed and lower-cased is rejected with
\* "Only SELECT queries are allowed": the edge function never forwards it, and the
\* database function never hands it to EXECUTE.
C1_NonSelectRejected ==
    ~StartsWithSelect =>
        /\ executed = NotExecuted
        /\ (edge # "none" => ~Forwarded)
        /\ (edge # "none" /\ pc \in {"reply", "done"} => reply \in {Http500(MsgOnlySelect), FetchFailed})
        /\ (edge = "none" /\ pc \in {"dbdone", "reply", "done"} =>
                dbResult \in {JsonErrorObject(MsgOnlySelect, "P0001"), RpcError(MsgTransport)})

\* '  DeLeTe from t' has come back from the database function, rejected
C1_Witness ==
    /\ stmt = <<" ", " ">> \o P_DeLeTe
    /\ edge = "none"
    /\ reply = Http200(JsonErrorObject(MsgOnlySelect, "P0001"))
    /\ executed = NotExecuted

\* C2: each of the two layers, on its own, rejects before execution every
\* statement that starts with select and holds one of the nine keywords as a whole
\* word: the edge function does not forward it, and the database function, when it
\* gets it, does not hand it to EXECUTE.
C2_EachLayerRejectsKeywords ==
    StartsWithSelect /\ HoldsKeyword =>
        /\ (edge # "none" => ~Forwarded)
        /\ executed = NotExecuted

\* a layer's refusal on account of a forbidden keyword, as it reaches the caller
KeywordRefusal ==
    IF reply.status = "500" /\ startsWith(reply.body.error, MsgForbiddenPrefix) THEN {reply.body.error}
    ELSE IF reply.status = "200" /\ Has(reply.body, "tag") /\ reply.body = JsonErrorObject(MsgDbForbidden, "P0001")
    THEN {reply.body.message}
    ELSE IF reply.status = "200" /\ Has(reply.body, "data") /\ reply.body.data = JsonErrorObject(MsgDbForbidden, "P0001")
    THEN {reply.body.data.message}
    ELSE {}

\* C3: when a statement is rejected for a forbidden keyword, the error the caller
\* gets names a keyword the statement holds, and what is executed is never a
\* stripped or rewritten statement.
C3_RefusalNamesKeyword ==
    /\ \A message \in KeywordRefusal :
          \E kw \in NineKeywords :
              /\ includes(toLowerCase(stmt), kw)
              /\ includes(toLowerCase(message), kw)
    /\ (executed # NotExecuted =>
          executed.text = ExecutePrefix \o trim(stmt, IF edge = "none" THEN {} ELSE JsWhiteSpace) \o ExecuteSuffix)

\* the executor has signalled failure to executeQueryPlan: the call failed, or the
\* value that came in place of the rows is execute_safe_query's error object
ExecutorFailed ==
    \/ reply.status # "200"
    \/ (Has(reply.body, "data") /\ reply.body.data.tag = "object")

IsExecutionFailure(r) ==
    /\ ~Has(r, "visualData")
    /\ ~Has(r, "data")
    /\ r.followUps = "alternative queries"
    /\ Len(r.insights) = 1

\* C10: whenever the executor signals failure, by a failed call or by an error
\* object in place of the rows, executeQueryPlan answers with the execution-failure
\* response: no visualization, no data, a failure insight, alternative queries.
C10_FailureIsReported ==
    pc = "done" /\ client \in {"llmQueryService", "part_011"} /\ ExecutorFailed
        => IsExecutionFailure(result)

(***************************************************************************)
(* Properties of the aggregators.                                          *)
(***************************************************************************)
\* the rows the client was given
ArrivedRows == IF dbResult.tag = "rows" THEN dbResult.rows ELSE <<>>

\* every FunnelMetrics record the client's result holds
ResultMetrics ==
    IF Has(result, "visualData") /\ Has(result.visualData, "type")
    THEN IF result.visualData.type = "funnel" THEN {result.visualData.data}
         ELSE IF result.visualData.type = "dimensional-funnel"
         THEN {result.visualData.data[k] : k \in DOMAIN result.visualData.data}
         ELSE {}
    ELSE IF Has(result, "totalFunnel")
    THEN {result.totalFunnel} \cup {result.regionBreakdown[k] : k \in DOMAIN result.regionBreakdown}
    ELSE {}

ClickRate(m) == IF Has(m, "clickRate") THEN m.clickRate ELSE m.clickThroughRate

\* the count adoptionRate divides by: clicks in part_011, deliveries elsewhere
AdoptionDenominator(m) == IF client = "part_011" THEN m.clicks ELSE m.deliveries

InRange(r) == RateAtLeast0(r) /\ RateAtMost100(r)

\* C5: for rows with non-negative counts, each of the four rates prepareFunnelData
\* returns lies in the closed range [0, 100].
C5_RatesWithin0And100 ==
    pc = "done" /\ client \in {"llmQueryService", "part_011"} =>
        \A m \in ResultMetrics :
            /\ InRange(m.openRate) /\ InRange(ClickRate(m))
            /\ InRange(m.clickThroughOpenRate) /\ InRange(m.adoptionRate)

(***************************************************************************)
(* The reduction written as sums over the rows, without the loop.          *)
(***************************************************************************)
RECURSIVE SumCounts(_, _)
SumCounts(rows, I) ==
    IF I = {} THEN 0
    ELSE LET i == CHOOSE j \in I : TRUE IN customersOf(rows[i]) + SumCounts(rows, I \ {i})

LabelHas(rows, i, fragment) ==
    Has(rows[i], "category_1") /\ includes(toLowerCase(rows[i].category_1), fragment)

IsDeliver(rows, i) == LabelHas(rows, i, s_deliver)
IsOpen(rows, i) == LabelHas(rows, i, s_open)
IsClick(rows, i) == LabelHas(rows, i, s_click)
IsAdopt(rows, i) == LabelHas(rows, i, s_adopt) \/ LabelHas(rows, i, s_convert) \/ LabelHas(rows, i, s_complete)

\* a row counts in every bucket whose fragment its label contains
CountsByContainment(rows, I) ==
    [deliveries |-> SumCounts(rows, {i \in I : IsDeliver(rows, i)}),
     opens |-> SumCounts(rows, {i \in I : IsOpen(rows, i)}),
     clicks |-> SumCounts(rows, {i \in I : IsClick(rows, i)}),
     adoptions |-> SumCounts(rows, {i \in I : IsAdopt(rows, i)})]

\* a row counts in the first bucket, in the order deliver, open, click,
\* adopt/convert/complete, whose fragment its label contains
CountsByFirstMatch(rows, I) ==
    [deliveries |-> SumCounts(rows, {i \in I : IsDeliver(rows, i)}),
     opens |-> SumCounts(rows, {i \in I : ~IsDeliver(rows, i) /\ IsOpen(rows, i)}),
     clicks |-> SumCounts(rows, {i \in I : ~IsDeliver(rows, i) /\ ~IsOpen(rows, i) /\ IsClick(rows, i)}),
     adoptions |-> SumCounts(rows, {i \in I : /\ ~IsDeliver(rows, i) /\ ~IsOpen(rows, i)
                                              /\ ~IsClick(rows, i) /\ IsAdopt(rows, i)})]

\* r is n / d x 100, and 0 when d is 0
RateIs(r, n, d) ==
    IF d = 0 THEN r = ZeroRate
    ELSE r.den > 0 /\ r.num * d = n * 100 * r.den

\* m has the counts c and the four rates the counts define
MetricsAre(m, c) ==
    /\ m.deliveries = c.deliveries /\ m.opens = c.opens
    /\ m.clicks = c.clicks /\ m.adoptions = c.adoptions
    /\ RateIs(m.openRate, c.opens, c.deliveries)
    /\ RateIs(m.clickThroughRate, c.clicks, c.deliveries)
    /\ RateIs(m.clickThroughOpenRate, c.clicks, c.opens)
    /\ RateIs(m.adoptionRate, c.adoptions, c.deliveries)

FunnelAnswered ==
    /\ pc = "done"
    /\ client = "llmQueryService"
    /\ Has(result, "visualData")
    /\ result.visualData.type = "funnel"

\* C6 as stated: each count is the sum of the counts of the rows whose lower-cased
\* label contains the bucket's fragment, and the rates are the four quotients.
C6_SumsByContainment ==
    FunnelAnswered =>
        MetricsAre(result.visualData.data, CountsByContainment(ArrivedRows, 1..Len(ArrivedRows)))

\* C6, amended: each row counts in one bucket only, the first of deliver, open,
\* click, adopt/convert/complete that its lower-cased label contains; the counts
\* are the sums per bucket, rows matching none are ignored, and the rates are the
\* four quotients (0 when the divisor is 0).
C6_SumsByFirstMatch ==
    FunnelAnswered =>
        MetricsAre(result.visualData.data, CountsByFirstMatch(ArrivedRows, 1..Len(ArrivedRows)))

\* Deliveries 100, Opens 40, Clicks 10 give 100, 40, 10, 0 and 40, 10, 25, 0
C6_Witness ==
    /\ FunnelAnswered
    /\ ArrivedRows = ExampleRows
    /\ result.visualData.data =
          [deliveries |-> 100, opens |-> 40, clicks |-> 10, adoptions |-> 0,
           openRate |-> Percent(40), clickThroughRate |-> Percent(10),
           clickThroughOpenRate |-> Percent(25), adoptionRate |-> ZeroRate]

(***************************************************************************)
(* Breakdown rows.                                                         *)
(***************************************************************************)
\* the dimension values that are present: strings other than the empty one
HasProperValue(row) ==
    /\ Has(row, "dimension_value")
    /\ row.dimension_value # JsonNull
    /\ row.dimension_value.v # ""

ProperValues(rows) ==
    {rows[i].dimension_value.v : i \in {j \in 1..Len(rows) : HasProperValue(rows[j])}}

\* the key a row is grouped under
KeyOf(row) == IF HasProperValue(row) THEN row.dimension_value.v ELSE "Unknown"

RowsOfKey(rows, k) == {i \in 1..Len(rows) : KeyOf(rows[i]) = k}

BreakdownAnswered ==
    /\ pc = "done"
    /\ client = "llmQueryService"
    /\ Has(result, "visualData")
    /\ result.visualData.type = "dimensional-funnel"

\* three distinct values other than 'Unknown', and rows with a null value
ThreeValuesAndNull(rows) ==
    /\ Cardinality(ProperValues(rows)) = 3
    /\ KeyOf([dimension_value |-> JsonNull]) \notin ProperValues(rows)
    /\ \E i \in 1..Len(rows) : Has(rows[i], "dimension_value") /\ rows[i].dimension_value = JsonNull

PermsOf ==
    [n \in 0..MaxRows |->
        {p \in [1..n -> 1..n] : \A i, j \in 1..n : p[i] = p[j] => i = j}]

Permute(rows, p) == [i \in 1..Len(rows) |-> rows[p[i]]]

\* C8: the aggregation does not depend on the order of the rows: for every
\* permutation of the rows prepareFunnelData returns the same FunnelMetrics and
\* processDimensionalData the same keys with the same FunnelMetrics per key.
C8_OrderIndependent ==
    pc = "done" /\ client = "llmQueryService" =>
        \A p \in PermsOf[Len(ArrivedRows)] :
            executeQueryPlan(Http200([data |-> JsonRows(Permute(ArrivedRows, p))])).visualData
                = result.visualData

\* two rows of one bucket with different counts, and a third row after them
C8_Witness ==
    /\ pc = "done"
    /\ client = "llmQueryService"
    /\ Len(ArrivedRows) = 3
    /\ \E i, j \in 1..3 :
          /\ i # j
          /\ bucketOf(categoryOf(ArrivedRows[i])) = "deliveries"
          /\ bucketOf(categoryOf(ArrivedRows[j])) = "deliveries"
          /\ customersOf(ArrivedRows[i]) # customersOf(ArrivedRows[j])
    /\ \E m \in ResultMetrics : m.deliveries = 5

(***************************************************************************)
(* Pivoted rows.                                                           *)
(***************************************************************************)
IsPivoted(row) ==
    Has(row, "deliveries") /\ Has(row, "opens") /\ Has(row, "clicks") /\ Has(row, "adoptions")

RECURSIVE SumField(_, _, _)
SumField(rows, I, f) ==
    IF I = {} THEN 0
    ELSE LET i == CHOOSE j \in I : TRUE IN rows[i][f] + SumField(rows, I \ {i}, f)

\* C9: when the rows carry the stage fields deliveries, opens, clicks and adoptions,
\* the stage counts are read from those fields; only the rows without them are
\* bucketed by their category label.
C9_PivotedRowsReadDirectly ==
    FunnelAnswered =>
        LET rows == ArrivedRows
            P == {i \in 1..Len(rows) : IsPivoted(rows[i])}
            c == CountsByFirstMatch(rows, (1..Len(rows)) \ P)
            m == result.visualData.data
        IN /\ m.deliveries = SumField(rows, P, "deliveries") + c.deliveries
           /\ m.opens = SumField(rows, P, "opens") + c.opens
           /\ m.clicks = SumField(rows, P, "clicks") + c.clicks
           /\ m.adoptions = SumField(rows, P, "adoptions") + c.adoptions

(***************************************************************************)
(* An empty result.                                                        *)
(***************************************************************************)
\* the executor succeeded and gave no row
ZeroRowsArrived ==
    /\ reply.status = "200"
    /\ Has(reply.body, "data")
    /\ reply.body.data.tag = "rows"
    /\ Len(reply.body.data.rows) = 0

\* the answers a populated result is given
PopulatedAnswers == {"plan.intent", "Found n results", "parsedResponse.answer"}

\* C11: when the executor succeeds with zero rows, executeQueryPlan gives a 'no data
\* found' response: it is not the execution-failure response, it does not carry the
\* answer of a populated result, and it shows no funnel.
C11_ZeroRowsReportedAsNoData ==
    pc = "done" /\ client \in {"llmQueryService", "part_011"} /\ ZeroRowsArrived =>
        /\ ~IsExecutionFailure(result)
        /\ result.answer \notin PopulatedAnswers
        /\ (Has(result, "visualData") => result.visualData = JsonNull)

(***************************************************************************)
(* Planning.  LLMQueryService.analyzeQuery asks the language model for a   *)
(* plan and parses the reply; DeepDiveService builds the deep-dive         *)
(* statements from the entities of that plan.                              *)
(***************************************************************************)
TableName == <<"s", "a", "m", "p", "l", "e", "_", "e", "n", "g", "a", "g", "e", "m", "e", "n", "t", "_", "d", "a", "t", "a">>
QuotedTableName == <<"\"">> \o TableName \o <<"\"">>
FromQuotedTable == <<"F", "R", "O", "M", " ", "\"", "s", "a", "m", "p", "l", "e", "_", "e", "n", "g", "a", "g", "e", "m", "e", "n", "t", "_", "d", "a", "t", "a", "\"">>
s_from == <<"f", "r", "o", "m">>
s_asg == <<"a", "s", "g">>
s_ASG_Primary_Path == <<"A", "S", "G", " ", "P", "r", "i", "m", "a", "r", "y", " ", "P", "a", "t", "h">>
s_program_eq_ASG == <<"p", "r", "o", "g", "r", "a", "m", "_", "n", "a", "m", "e", "_", "1", " ", "=", " ", "'", "A", "S", "G", "'">>
s_program_in_ASG == <<"p", "r", "o", "g", "r", "a", "m", "_", "n", "a", "m", "e", "_", "1", " ", "I", "N", " ", "(", "'", "A", "S", "G", " ", "P", "r", "i", "m", "a", "r", "y", " ", "P", "a", "t", "h", "'", ",", " ", "'", "M", "C", "G", " ", "A", "S", "G", " ", "P", "a", "t", "h", "'", ",", " ", "'", "P", "M", "a", "x", " ", "A", "S", "G", " ", "P", "a", "t", "h", "'", ")">>

\* the statements a language model may write: concatenations of these fragments
Q_select == <<"S", "E", "L", "E", "C", "T", " ", "c", "a", "t", "e", "g", "o", "r", "y", "_", "1", " ">>
Q_FROM == <<"F", "R", "O", "M", " ">>
Q_from_ws == <<"f", "r", "o", "m", "\n", "\t">>
Q_bare == TableName
Q_quoted == QuotedTableName
Q_join == <<" ", "J", "O", "I", "N", " ">>
Q_schema == <<"F", "R", "O", "M", " ", "p", "u", "b", "l", "i", "c", ".">>
Q_where_asg == <<" ", "W", "H", "E", "R", "E", " ">> \o s_program_eq_ASG

SqlPieces == {Q_select, Q_FROM, Q_from_ws, Q_bare, Q_quoted, Q_join, Q_schema, Q_where_asg}

RECURSIVE PlanStatementsOfLen(_)
PlanStatementsOfLen(n) ==
    IF n = 0 THEN {<<>>}
    ELSE {p \o s : p \in SqlPieces, s \in PlanStatementsOfLen(n - 1)}

PlanStatements == UNION {PlanStatementsOfLen(n) : n \in 1..MaxPieces}

\* the entities a plan may list
e_ASG == <<"A", "S", "G">>
e_Americas == <<"A", "m", "e", "r", "i", "c", "a", "s">>
e_Q2 == <<"q", "2">>
e_LPW_Path == <<"L", "P", "W", " ", "P", "a", "t", "h">>
EntityLists == {<<>>, <<e_ASG, e_Americas>>, <<e_Americas, e_Q2>>, <<e_Q2, e_LPW_Path, e_ASG>>}

\* what callLLM and JSON.parse make of the model's reply: the call fails, the reply
\* has no response text, the text is no JSON, or it parses to a JSON value
JsonInvalid == [t |-> "invalid"]
JsonNumber == [t |-> "number"]
JsonArray == [t |-> "array"]
JsonObject(o) == [t |-> "object", o |-> o]

LLMFailed == [kind |-> "fails"]
LLMNoResponse == [kind |-> "no response"]
LLMText(json) == [kind |-> "text", json |-> json]

LLMPlans ==
    {[intent |-> "intent", entities |-> es, sqlQuery |-> q, expectedVisualization |-> "table"] :
        es \in {<<e_ASG, e_Americas>>}, q \in PlanStatements}
    \cup {[intent |-> "intent", entities |-> es, sqlQuery |-> Q_select \o Q_FROM \o Q_quoted, expectedVisualization |-> "table"] :
        es \in EntityLists}
    \cup {[intent |-> "intent", sqlQuery |-> Q_select \o Q_FROM \o Q_quoted],
          [intent |-> "intent", entities |-> <<e_ASG>>],
          [note |-> "no plan"]}

LLMReplies ==
    {LLMFailed, LLMNoResponse, LLMText(JsonInvalid), LLMText(JsonNull), LLMText(JsonNumber), LLMText(JsonArray)}
    \cup {LLMText(JsonObject(o)) : o \in LLMPlans}

\* the fallback statement of llmQueryService.ts
FallbackSql == <<"S", "E", "L", "E", "C", "T", " ", "c", "a", "t", "e", "g", "o", "r", "y", "_", "1", ",", " ", "S", "U", "M", "(", "c", "u", "s", "t", "o", "m", "e", "r", "s", "_", "1", ")", " ", "a", "s", " ", "c", "u", "s", "t", "o", "m", "e", "r", "s", " ", "F", "R", "O", "M", " ", "\"", "s", "a", "m", "p", "l", "e", "_", "e", "n", "g", "a", "g", "e", "m", "e", "n", "t", "_", "d", "a", "t", "a", "\"", " ", "W", "H", "E", "R", "E", " ", "p", "r", "o", "g", "r", "a", "m", "_", "n", "a", "m", "e", "_", "1", " ", "I", "N", " ", "(", "'", "A", "S", "G", " ", "P", "r", "i", "m", "a", "r", "y", " ", "P", "a", "t", "h", "'", ",", " ", "'", "M", "C", "G", " ", "A", "S", "G", " ", "P", "a", "t", "h", "'", ",", " ", "'", "P", "M", "a", "x", " ", "A", "S", "G", " ", "P", "a", "t", "h", "'", ")", " ", "A", "N", "D", " ", "a", "c", "q", "_", "r", "e", "g", "i", "o", "n", "_", "1", " ", "=", " ", "'", "A", "m", "e", "r", "i", "c", "a", "s", "'", " ", "G", "R", "O", "U", "P", " ", "B", "Y", " ", "c", "a", "t", "e", "g", "o", "r", "y", "_", "1", " ", "O", "R", "D", "E", "R", " ", "B", "Y", " ", "c", "a", "t", "e", "g", "o", "r", "y", "_", "1">>

\* the fallback statement of part_011
FallbackSql_part011 == <<"S", "E", "L", "E", "C", "T", " ", "\n", " ", " ", " ", " ", " ", " ", " ", " ", " ", " ", "D", "A", "T", "E", "_", "T", "R", "U", "N", "C", "(", "'", "m", "o", "n", "t", "h", "'", ",", " ", "s", "e", "n", "d", "_", "d", "a", "t", "e", "_", "1", ":", ":", "d", "a", "t", "e", ")", " ", "a", "s", " ", "m", "o", "n", "t", "h", ",", "\n", " ", " ", " ", " ", " ", " ", " ", " ", " ", " ", "p", "r", "o", "g", "r", "a", "m", "_", "n", "a", "m", "e", "_", "1", ",", "\n", " ", " ", " ", " ", " ", " ", " ", " ", " ", " ", "c", "a", "t", "e", "g", "o", "r", "y", "_", "1", ",", "\n", " ", " ", " ", " ", " ", " ", " ", " ", " ", " ", "S", "U", "M", "(", "c", "u", "s", "t", "o", "m", "e", "r", "s", "_", "1", ")", " ", "a", "s", " ", "t", "o", "t", "a", "l", "_", "c", "u", "s", "t", "o", "m", "e", "r", "s", "\n", " ", " ", " ", " ", " ", " ", " ", " ", "F", "R", "O", "M", " ", "\"", "s", "a", "m", "p", "l", "e", "_", "e", "n", "g", "a", "g", "e", "m", "e", "n", "t", "_", "d", "a", "t", "a", "\"", " ", "\n", " ", " ", " ", " ", " ", " ", " ", " ", "W", "H", "E", "R", "E", " ", "p", "r", "o", "g", "r", "a", "m", "_", "n", "a", "m", "e", "_", "1", " ", "I", "N", " ", "(", "'", "A", "S", "G", " ", "P", "r", "i", "m", "a", "r", "y", " ", "P", "a", "t", "h", "'", ",", " ", "'", "M", "C", "G", " ", "A", "S", "G", " ", "P", "a", "t", "h", "'", ",", " ", "'", "P", "M", "a", "x", " ", "A", "S", "G", " ", "P", "a", "t", "h", "'", ")", " ", "\n", " ", " ", " ", " ", " ", " ", " ", " ", " ", " ", "A", "N", "D", " ", "a", "c", "q", "_", "r", "e", "g", "i", "o", "n", "_", "1", " ", "=", " ", "'", "A", "m", "e", "r", "i", "c", "a", "s", "'", "\n", " ", " ", " ", " ", " ", " ", " ", " ", "G", "R", "O", "U", "P", " ", "B", "Y", " ", "1", ",", " ", "2", ",", " ", "3", " ", "\n", " ", " ", " ", " ", " ", " ", " ", " ", "O", "R", "D", "E", "R", " ", "B", "Y", " ", "1", ",", " ", "2", ",", " ", "3">>

\* the plan returned from the catch block of analyzeQuery in llmQueryService.ts
FallbackPlan ==
    JsonObject([intent |-> "Funnel analysis for: query",
                entities |-> <<e_ASG, e_Americas>>,
                filters |-> [program |-> e_ASG, region |-> e_Americas],
                sqlQuery |-> FallbackSql,
                expectedVisualization |-> "funnel",
                explanation |-> "Fallback"])

\* the plan returned from the catch block of analyzeQuery in part_011
FallbackPlan_part011 ==
    JsonObject([intent |-> "Find month-over-month performance for: query",
                entities |-> <<e_ASG, e_Americas>>,
                filters |-> [program |-> e_ASG, region |-> e_Americas],
                sqlQuery |-> FallbackSql_part011,
                expectedVisualization |-> "table",
                explanation |-> "Enhanced fallback"])

\* obj.f = v
setField(o, f, v) == [g \in DOMAIN o \cup {f} |-> IF g = f THEN v ELSE o[g]]

\* LLMQueryService.analyzeQuery of llmQueryService.ts, after the await of callLLM.
\* The assignment of expectedVisualization throws for null and, the module being
\* strict code, for a number; an array takes the property and is returned.
analyzeQuery(query, r) ==
    IF r.kind # "text" THEN FallbackPlan
    ELSE IF r.json.t \in {"invalid", "null", "number"} THEN FallbackPlan
    ELSE IF r.json.t = "array" THEN r.json
    ELSE JsonObject(setField(r.json.o, "expectedVisualization", "funnel"))

isSpace(c) == c \in {" ", "\t", "\n", "\r", "\f"}

\* the length of the match of /FROM\s+sample_engagement_data/i that starts at s[i], 0 for none
fromTableMatch(s, i) ==
    IF i + 3 > Len(s) \/ toLowerCase(SubSeq(s, i, i + 3)) # s_from THEN 0
    ELSE LET spaces == {k \in 1..(Len(s) - i - 3) : \A j \in 1..k : isSpace(s[i + 3 + j])}
             k == IF spaces = {} THEN 0 ELSE CHOOSE n \in spaces : \A o \in spaces : o <= n
         IN IF k > 0 /\ startsWith(toLowerCase(SubSeq(s, i + 4 + k, Len(s))), TableName)
            THEN 4 + k + Len(TableName)
            ELSE 0

\* sqlQuery.replace(/FROM\s+sample_engagement_data/gi, 'FROM "sample_engagement_data"'):
\* every match, from the left
RECURSIVE replaceFromTable(_)
replaceFromTable(s) ==
    LET starts == {i \in 1..Len(s) : fromTableMatch(s, i) > 0} IN
    IF starts = {} THEN s
    ELSE LET i == CHOOSE n \in starts : \A o \in starts : n <= o
         IN SubSeq(s, 1, i - 1) \o FromQuotedTable
                \o replaceFromTable(SubSeq(s, i + fromTableMatch(s, i), Len(s)))

\* s.replace(pattern, replacement) with a string pattern: the first occurrence only
replaceFirst(s, pattern, replacement) ==
    LET starts == {i \in 1..(Len(s) - Len(pattern) + 1) : SubSeq(s, i, i + Len(pattern) - 1) = pattern} IN
    IF starts = {} THEN s
    ELSE LET i == CHOOSE n \in starts : \A o \in starts : n <= o
         IN SubSeq(s, 1, i - 1) \o replacement \o SubSeq(s, i + Len(pattern), Len(s))

\* the table-name repair of part_011
repairTableName(sqlQuery) ==
    IF sqlQuery # <<>> /\ ~includes(sqlQuery, QuotedTableName)
    THEN replaceFromTable(sqlQuery)
    ELSE sqlQuery

\* the ASG enhancement of part_011
enhanceASG(sqlQuery) ==
    IF includes(sqlQuery, s_program_eq_ASG)
    THEN replaceFirst(sqlQuery, s_program_eq_ASG, s_program_in_ASG)
    ELSE sqlQuery

\* LLMQueryService.analyzeQuery of part_011, after the await of callLLM.  A value
\* without sqlQuery passes the repair untouched; the ASG check then reads
\* sqlQuery.includes and throws when the query mentions asg.
analyzeQuery_part011(query, r) ==
    IF r.kind # "text" THEN FallbackPlan_part011
    ELSE IF r.json.t \in {"invalid", "null"} THEN FallbackPlan_part011
    ELSE LET asg == includes(toLowerCase(query), s_asg)
             hasSql == r.json.t = "object" /\ Has(r.json.o, "sqlQuery")
         IN IF ~hasSql
            THEN IF asg THEN FallbackPlan_part011 ELSE r.json
            ELSE LET repaired == repairTableName(r.json.o.sqlQuery)
                     final == IF asg /\ ~includes(repaired, s_ASG_Primary_Path)
                              THEN enhanceASG(repaired) ELSE repaired
                 IN JsonObject(setField(r.json.o, "sqlQuery", final))

(***************************************************************************)
(* DeepDiveService (part_010).                                             *)
(***************************************************************************)
includesAny(s, fragments) == \E f \in fragments : includes(toLowerCase(s), f)

\* entities.find(e => test(e)): the first entity that passes, <<>> for undefined
RECURSIVE findEntity(_, _)
findEntity(entities, fragments) ==
    IF entities = <<>> THEN <<>>
    ELSE IF includesAny(Head(entities), fragments) THEN Head(entities)
    ELSE findEntity(Tail(entities), fragments)

ProgramFragments == {s_asg, <<"l", "w", "p">>, <<"p", "r", "i", "m", "a", "r", "y">>, <<"p", "a", "t", "h">>}
RegionFragments == {<<"a", "m", "e", "r", "i", "c", "a", "s">>, <<"e", "u", "r", "o", "p", "e">>, <<"a", "s", "i", "a">>, <<"a", "f", "r", "i", "c", "a">>}
QuarterFragments == {<<"q", "1">>, <<"q", "2">>, <<"q", "3">>, <<"q", "4">>}

UpperOf == [c \in {Lower[i] : i \in 1..Len(Lower)} |-> Upper[CHOOSE i \in 1..Len(Lower) : Lower[i] = c]]
toUpperCase(s) == [i \in 1..Len(s) |-> IF s[i] \in DOMAIN UpperOf THEN UpperOf[s[i]] ELSE s[i]]

WhereTrue == <<"W", "H", "E", "R", "E", " ", "1", "=", "1">>
AndProgramLike == <<" ", "A", "N", "D", " ", "p", "r", "o", "g", "r", "a", "m", "_", "n", "a", "m", "e", "_", "1", " ", "I", "L", "I", "K", "E", " ", "'", "%">>
AndRegionLike == <<" ", "A", "N", "D", " ", "a", "c", "q", "_", "r", "e", "g", "i", "o", "n", "_", "1", " ", "I", "L", "I", "K", "E", " ", "'", "%">>
AndQuarterEq == <<" ", "A", "N", "D", " ", "s", "e", "n", "d", "_", "d", "a", "t", "e", "_", "q", "u", "a", "r", "t", "e", "r", "_", "1", " ", "=", " ", "'">>
LikeEnd == <<"%", "'">>
QuoteEnd == <<"'">>

programClause(entities) ==
    LET programFilter == findEntity(entities, ProgramFragments) IN
    IF programFilter # <<>> THEN AndProgramLike \o programFilter \o LikeEnd ELSE <<>>

regionClause(entities) ==
    LET regionFilter == findEntity(entities, RegionFragments) IN
    IF regionFilter # <<>> THEN AndRegionLike \o regionFilter \o LikeEnd ELSE <<>>

quarterClause(entities) ==
    LET quarterFilter == findEntity(entities, QuarterFragments) IN
    IF quarterFilter # <<>> THEN AndQuarterEq \o toUpperCase(quarterFilter) \o QuoteEnd ELSE <<>>

QuarterlyHead == <<"\n", " ", " ", " ", " ", " ", " ", "S", "E", "L", "E", "C", "T", " ", "\n", " ", " ", " ", " ", " ", " ", " ", " ", "s", "e", "n", "d", "_", "d", "a", "t", "e", "_", "q", "u", "a", "r", "t", "e", "r", "_", "1", " ", "a", "s", " ", "q", "u", "a", "r", "t", "e", "r", ",", "\n", " ", " ", " ", " ", " ", " ", " ", " ", "S", "U", "M", "(", "c", "u", "s", "t", "o", "m", "e", "r", "s", "_", "1", ")", " ", "a", "s", " ", "d", "e", "l", "i", "v", "e", "r", "i", "e", "s", ",", "\n", " ", " ", " ", " ", " ", " ", " ", " ", "S", "U", "M", "(", "C", "A", "S", "E", " ", "W", "H", "E", "N", " ", "f", "u", "n", "n", "e", "l", "_", "o", "r", "d", "e", "r", "_", "1", " ", ">", "=", " ", "2", " ", "T", "H", "E", "N", " ", "c", "u", "s", "t", "o", "m", "e", "r", "s", "_", "1", " ", "E", "L", "S", "E", " ", "0", " ", "E", "N", "D", ")", " ", "a", "s", " ", "o", "p", "e", "n", "s", ",", "\n", " ", " ", " ", " ", " ", " ", " ", " ", "S", "U", "M", "(", "C", "A", "S", "E", " ", "W", "H", "E", "N", " ", "f", "u", "n", "n", "e", "l", "_", "o", "r", "d", "e", "r", "_", "1", " ", ">", "=", " ", "3", " ", "T", "H", "E", "N", " ", "c", "u", "s", "t", "o", "m", "e", "r", "s", "_", "1", " ", "E", "L", "S", "E", " ", "0", " ", "E", "N", "D", ")", " ", "a", "s", " ", "c", "l", "i", "c", "k", "s", ",", "\n", " ", " ", " ", " ", " ", " ", " ", " ", "S", "U", "M", "(", "C", "A", "S", "E", " ", "W", "H", "E", "N", " ", "f", "u", "n", "n", "e", "l", "_", "o", "r", "d", "e", "r", "_", "1", " ", ">", "=", " ", "4", " ", "T", "H", "E", "N", " ", "c", "u", "s", "t", "o", "m", "e", "r", "s", "_", "1", " ", "E", "L", "S", "E", " ", "0", " ", "E", "N", "D", ")", " ", "a", "s", " ", "a", "d", "o", "p", "t", "i", "o", "n", "s", "\n", " ", " ", " ", " ", " ", " ", "F", "R", "O", "M", " ", "s", "a", "m", "p", "l", "e", "_", "e", "n", "g", "a", "g", "e", "m", "e", "n", "t", "_", "d", "a", "t", "a", " ", "\n", " ", " ", " ", " ", " ", " ">>
QuarterlyTail == <<"\n", " ", " ", " ", " ", " ", " ", "G", "R", "O", "U", "P", " ", "B", "Y", " ", "s", "e", "n", "d", "_", "d", "a", "t", "e", "_", "q", "u", "a", "r", "t", "e", "r", "_", "1", " ", "\n", " ", " ", " ", " ", " ", " ", "O", "R", "D", "E", "R", " ", "B", "Y", " ", "s", "e", "n", "d", "_", "d", "a", "t", "e", "_", "q", "u", "a", "r", "t", "e", "r", "_", "1", "\n", " ", " ", " ", " ">>
AssignmentHead == <<"\n", " ", " ", " ", " ", " ", " ", "S", "E", "L", "E", "C", "T", " ", "\n", " ", " ", " ", " ", " ", " ", " ", " ", "a", "s", "s", "i", "g", "n", "m", "e", "n", "t", "_", "s", "t", "a", "t", "u", "s", "_", "1", " ", "a", "s", " ", "a", "s", "s", "i", "g", "n", "m", "e", "n", "t", "_", "s", "t", "a", "t", "u", "s", ",", "\n", " ", " ", " ", " ", " ", " ", " ", " ", "s", "p", "e", "n", "d", "_", "t", "i", "e", "r", "_", "g", "r", "o", "u", "p", "e", "d", "_", "1", " ", "a", "s", " ", "s", "p", "e", "n", "d", "_", "t", "i", "e", "r", ",", "\n", " ", " ", " ", " ", " ", " ", " ", " ", "S", "U", "M", "(", "c", "u", "s", "t", "o", "m", "e", "r", "s", "_", "1", ")", " ", "a", "s", " ", "c", "o", "u", "n", "t", "\n", " ", " ", " ", " ", " ", " ", "F", "R", "O", "M", " ", "s", "a", "m", "p", "l", "e", "_", "e", "n", "g", "a", "g", "e", "m", "e", "n", "t", "_", "d", "a", "t", "a", " ", "\n", " ", " ", " ", " ", " ", " ">>
AssignmentTail == <<"\n", " ", " ", " ", " ", " ", " ", "G", "R", "O", "U", "P", " ", "B", "Y", " ", "a", "s", "s", "i", "g", "n", "m", "e", "n", "t", "_", "s", "t", "a", "t", "u", "s", "_", "1", ",", " ", "s", "p", "e", "n", "d", "_", "t", "i", "e", "r", "_", "g", "r", "o", "u", "p", "e", "d", "_", "1", " ", "\n", " ", " ", " ", " ", " ", " ", "O", "R", "D", "E", "R", " ", "B", "Y", " ", "a", "s", "s", "i", "g", "n", "m", "e", "n", "t", "_", "s", "t", "a", "t", "u", "s", "_", "1", ",", " ", "s", "p", "e", "n", "d", "_", "t", "i", "e", "r", "_", "g", "r", "o", "u", "p", "e", "d", "_", "1", "\n", " ", " ", " ", " ">>
RegionalHead == <<"\n", " ", " ", " ", " ", " ", " ", "S", "E", "L", "E", "C", "T", " ", "\n", " ", " ", " ", " ", " ", " ", " ", " ", "a", "c", "q", "_", "r", "e", "g", "i", "o", "n", "_", "1", " ", "a", "s", " ", "r", "e", "g", "i", "o", "n", ",", "\n", " ", " ", " ", " ", " ", " ", " ", " ", "S", "U", "M", "(", "c", "u", "s", "t", "o", "m", "e", "r", "s", "_", "1", ")", " ", "a", "s", " ", "d", "e", "l", "i", "v", "e", "r", "i", "e", "s", ",", "\n", " ", " ", " ", " ", " ", " ", " ", " ", "S", "U", "M", "(", "C", "A", "S", "E", " ", "W", "H", "E", "N", " ", "f", "u", "n", "n", "e", "l", "_", "o", "r", "d", "e", "r", "_", "1", " ", ">", "=", " ", "2", " ", "T", "H", "E", "N", " ", "c", "u", "s", "t", "o", "m", "e", "r", "s", "_", "1", " ", "E", "L", "S", "E", " ", "0", " ", "E", "N", "D", ")", " ", "a", "s", " ", "o", "p", "e", "n", "s", ",", "\n", " ", " ", " ", " ", " ", " ", " ", " ", "S", "U", "M", "(", "C", "A", "S", "E", " ", "W", "H", "E", "N", " ", "f", "u", "n", "n", "e", "l", "_", "o", "r", "d", "e", "r", "_", "1", " ", ">", "=", " ", "3", " ", "T", "H", "E", "N", " ", "c", "u", "s", "t", "o", "m", "e", "r", "s", "_", "1", " ", "E", "L", "S", "E", " ", "0", " ", "E", "N", "D", ")", " ", "a", "s", " ", "c", "l", "i", "c", "k", "s", ",", "\n", " ", " ", " ", " ", " ", " ", " ", " ", "S", "U", "M", "(", "C", "A", "S", "E", " ", "W", "H", "E", "N", " ", "f", "u", "n", "n", "e", "l", "_", "o", "r", "d", "e", "r", "_", "1", " ", ">", "=", " ", "4", " ", "T", "H", "E", "N", " ", "c", "u", "s", "t", "o", "m", "e", "r", "s", "_", "1", " ", "E", "L", "S", "E", " ", "0", " ", "E", "N", "D", ")", " ", "a", "s", " ", "a", "d", "o", "p", "t", "i", "o", "n", "s", "\n", " ", " ", " ", " ", " ", " ", "F", "R", "O", "M", " ", "s", "a", "m", "p", "l", "e", "_", "e", "n", "g", "a", "g", "e", "m", "e", "n", "t", "_", "d", "a", "t", "a", " ", "\n", " ", " ", " ", " ", " ", " ">>
RegionalTail == <<"\n", " ", " ", " ", " ", " ", " ", "G", "R", "O", "U", "P", " ", "B", "Y", " ", "a", "c", "q", "_", "r", "e", "g", "i", "o", "n", "_", "1", " ", "\n", " ", " ", " ", " ", " ", " ", "O", "R", "D", "E", "R", " ", "B", "Y", " ", "d", "e", "l", "i", "v", "e", "r", "i", "e", "s", " ", "D", "E", "S", "C", "\n", " ", " ", " ", " ">>

generateQuarterlySQL(entities) ==
    QuarterlyHead \o WhereTrue \o programClause(entities) \o regionClause(entities) \o QuarterlyTail

generateAssignmentSQL(entities) ==
    AssignmentHead \o WhereTrue \o programClause(entities) \o regionClause(entities) \o AssignmentTail

generateRegionalSQL(entities) ==
    RegionalHead \o WhereTrue \o programClause(entities) \o quarterClause(entities) \o RegionalTail

generateSQL(optionType, entities) ==
    CASE optionType = "quarterly" -> generateQuarterlySQL(entities)
      [] optionType = "assignment" -> generateAssignmentSQL(entities)
      [] optionType = "regional" -> generateRegionalSQL(entities)

(***************************************************************************)
(* Actions of planning.                                                    *)
(***************************************************************************)
\* plan.sqlQuery as executeQueryPlan puts it in the request body; <<>> for undefined
planSql(plan) ==
    IF plan.t = "object" /\ Has(plan.o, "sqlQuery") THEN plan.o.sqlQuery ELSE <<>>

AnalysisUnchanged == UNCHANGED <<userQuery, liveValues, client, edge, dbQuery, executed, dbResult, reply>>

AnalyzeQuery ==
    /\ pc = "ask"
    /\ client = "llmQueryService"
    /\ result' = analyzeQuery(userQuery, reply)
    /\ stmt' = planSql(result')
    /\ pc' = "edge"
    /\ AnalysisUnchanged

AnalyzeQuery_part011 ==
    /\ pc = "ask"
    /\ client = "part_011"
    /\ result' = analyzeQuery_part011(userQuery, reply)
    /\ stmt' = planSql(result')
    /\ pc' = "edge"
    /\ AnalysisUnchanged

\* handleDeepDive up to the rpc call: the plan of the original query gives the
\* entities; a plan without entities makes entities.find throw, which ends in the toast
DeepDiveGenerateSQL ==
    /\ pc = "ask"
    /\ client = "handleDeepDive"
    /\ \E optionType \in DeepDiveTypes, originalPlan \in {analyzeQuery(userQuery, reply), analyzeQuery_part011(userQuery, reply)} :
         IF originalPlan.t = "object" /\ Has(originalPlan.o, "entities")
         THEN /\ stmt' = generateSQL(optionType, originalPlan.o.entities)
              /\ result' = originalPlan
              /\ pc' = "db"
         ELSE /\ stmt' = <<>>
              /\ result' = [toast |-> "Failed to execute deep dive analysis"]
              /\ pc' = "done"
    /\ AnalysisUnchanged

u_show_lpw == <<"s", "h", "o", "w", " ", "L", "P", "W", " ", "p", "e", "r", "f", "o", "r", "m", "a", "n", "c", "e">>
u_asg_americas == <<"A", "S", "G", " ", "i", "n", " ", "A", "m", "e", "r", "i", "c", "a", "s">>
UserQueries == {u_show_lpw, u_asg_americas}

InitAnalyze ==
    /\ userQuery \in UserQueries
    /\ liveValues = <<>>
    /\ client \in {"llmQueryService", "part_011", "handleDeepDive"}
    /\ edge = IF client = "handleDeepDive" THEN "none" ELSE "index"
    /\ reply \in LLMReplies
    /\ stmt = <<>>
    /\ pc = "ask"
    /\ dbQuery = <<>>
    /\ executed = NotExecuted
    /\ dbResult = NoResult
    /\ result = Pending

NextAnalyze ==
    \/ AnalyzeQuery
    \/ AnalyzeQuery_part011
    \/ DeepDiveGenerateSQL

SpecAnalyze == InitAnalyze /\ [][NextAnalyze]_vars

(***************************************************************************)
(* Properties of planning.                                                 *)
(***************************************************************************)
\* the reply of the language model parsed to a JSON object
ParsedToObject == reply.kind = "text" /\ reply.json.t = "object"

FallbackOf(c) == IF c = "part_011" THEN FallbackPlan_part011 ELSE FallbackPlan

Planned == pc = "edge" /\ client \in {"llmQueryService", "part_011"} /\ reply \in LLMReplies

\* C12: analyzeQuery never rejects, and whenever the language-model call fails or
\* its output does not parse into a plan object, the plan it resolves with is the
\* fixed default plan (the three ASG programs in Americas, the table name quoted).
C12_FallbackWhenNoPlan ==
    Planned /\ ~ParsedToObject =>
        /\ result = FallbackOf(client)
        /\ includes(result.o.sqlQuery, s_program_in_ASG)
        /\ includes(result.o.sqlQuery, QuotedTableName)

\* the table is named at position i of s without the double quotes around it
BareTableAt(s, i) ==
    /\ i + Len(TableName) - 1 <= Len(s)
    /\ toLowerCase(SubSeq(s, i, i + Len(TableName) - 1)) = TableName
    /\ ~(/\ i > 1 /\ s[i - 1] = "\""
         /\ i + Len(TableName) <= Len(s) /\ s[i + Len(TableName)] = "\"")

NamesTableBare(s) == \E i \in 1..Len(s) : BareTableAt(s, i)

\* the client is about to hand stmt to the executor
HandedToExecutor == pc \in {"edge", "db"} /\ reply \in LLMReplies /\ stmt # <<>>

\* C13: every statement the client hands to the executor names the table in its
\* double-quoted form only: the plans of the language model after the repair,
\* the fallback plan, and the three deep-dive statements.
C13_TableAlwaysQuoted ==
    HandedToExecutor => ~NamesTableBare(stmt)

(***************************************************************************)
(* Reading the intent of a query: QueryAnalyzer (utils/queryAnalyzer.ts    *)
(* and its copy in pages/Index.tsx) and IntelligentQueryProcessor.parseQuery *)
(* (part_012).  Of the value each returns the model keeps the type, the    *)
(* dimensions, the entities, the programs and regions, and the filters.    *)
(***************************************************************************)
p_ASG_Primary_Path == <<"A", "S", "G", " ", "P", "r", "i", "m", "a", "r", "y", " ", "P", "a", "t", "h">>
p_MCG_ASG_Path == <<"M", "C", "G", " ", "A", "S", "G", " ", "P", "a", "t", "h">>
p_PMax_ASG_Path == <<"P", "M", "a", "x", " ", "A", "S", "G", " ", "P", "a", "t", "h">>
p_LPW_Path == <<"L", "P", "W", " ", "P", "a", "t", "h">>
r_Americas == <<"A", "m", "e", "r", "i", "c", "a", "s">>
r_EMEA == <<"E", "M", "E", "A">>
r_APAC == <<"A", "P", "A", "C">>
r_Latin_America == <<"L", "a", "t", "i", "n", " ", "A", "m", "e", "r", "i", "c", "a">>
r_Africa == <<"A", "f", "r", "i", "c", "a">>

DIMENSION_KEYWORDS == <<
    [dim |-> "region", keywords |-> <<<<"r", "e", "g", "i", "o", "n">>, <<"g", "e", "o", "g", "r", "a", "p", "h", "i", "c">>, <<"l", "o", "c", "a", "t", "i", "o", "n">>, <<"a", "r", "e", "a">>>>],
    [dim |-> "country", keywords |-> <<<<"c", "o", "u", "n", "t", "r", "y">>, <<"n", "a", "t", "i", "o", "n">>, <<"c", "o", "u", "n", "t", "r", "i", "e", "s">>>>],
    [dim |-> "program", keywords |-> <<<<"p", "r", "o", "g", "r", "a", "m">>, <<"c", "o", "u", "r", "s", "e">>, <<"t", "r", "a", "i", "n", "i", "n", "g">>>>],
    [dim |-> "lesson", keywords |-> <<<<"l", "e", "s", "s", "o", "n">>, <<"m", "o", "d", "u", "l", "e">>, <<"c", "h", "a", "p", "t", "e", "r">>>>],
    [dim |-> "product", keywords |-> <<<<"p", "r", "o", "d", "u", "c", "t">>, <<"i", "t", "e", "m">>>>],
    [dim |-> "tier", keywords |-> <<<<"t", "i", "e", "r">>, <<"l", "e", "v", "e", "l">>, <<"s", "p", "e", "n", "d", " ", "l", "e", "v", "e", "l">>>>],
    [dim |-> "language", keywords |-> <<<<"l", "a", "n", "g", "u", "a", "g", "e">>, <<"l", "a", "n", "g">>>>],
    [dim |-> "quarter", keywords |-> <<<<"q", "u", "a", "r", "t", "e", "r">>, <<"q", "1">>, <<"q", "2">>, <<"q", "3">>, <<"q", "4">>>>],
    [dim |-> "campaign", keywords |-> <<<<"c", "a", "m", "p", "a", "i", "g", "n">>, <<"s", "e", "n", "d">>, <<"e", "m", "a", "i", "l">>>>],
    [dim |-> "funnel", keywords |-> <<<<"f", "u", "n", "n", "e", "l">>, <<"d", "e", "l", "i", "v", "e", "r", "i", "e", "s">>, <<"o", "p", "e", "n", "s">>, <<"c", "l", "i", "c", "k", "s">>, <<"c", "o", "n", "v", "e", "r", "s", "i", "o", "n">>>>]
>>

DIMENSION_KEYWORDS_Index == <<
    [dim |-> "region", keywords |-> <<<<"r", "e", "g", "i", "o", "n">>, <<"g", "e", "o", "g", "r", "a", "p", "h", "i", "c">>, <<"l", "o", "c", "a", "t", "i", "o", "n">>, <<"a", "r", "e", "a">>>>],
    [dim |-> "country", keywords |-> <<<<"c", "o", "u", "n", "t", "r", "y">>, <<"n", "a", "t", "i", "o", "n">>, <<"c", "o", "u", "n", "t", "r", "i", "e", "s">>>>],
    [dim |-> "program", keywords |-> <<<<"p", "r", "o", "g", "r", "a", "m">>, <<"c", "o", "u", "r", "s", "e">>, <<"t", "r", "a", "i", "n", "i", "n", "g">>>>],
    [dim |-> "lesson", keywords |-> <<<<"l", "e", "s", "s", "o", "n">>, <<"m", "o", "d", "u", "l", "e">>, <<"c", "h", "a", "p", "t", "e", "r">>>>],
    [dim |-> "product", keywords |-> <<<<"p", "r", "o", "d", "u", "c", "t">>, <<"i", "t", "e", "m">>>>],
    [dim |-> "tier", keywords |-> <<<<"t", "i", "e", "r">>, <<"l", "e", "v", "e", "l">>, <<"s", "p", "e", "n", "d", " ", "l", "e", "v", "e", "l">>>>],
    [dim |-> "language", keywords |-> <<<<"l", "a", "n", "g", "u", "a", "g", "e">>, <<"l", "a", "n", "g">>>>],
    [dim |-> "quarter", keywords |-> <<<<"q", "u", "a", "r", "t", "e", "r">>, <<"q", "1">>, <<"q", "2">>, <<"q", "3">>, <<"q", "4">>>>],
    [dim |-> "month", keywords |-> <<<<"m", "o", "n", "t", "h">>, <<"m", "o", "n", "t", "h", "l", "y">>, <<"m", "o", "n", "t", "h", " ", "o", "v", "e", "r", " ", "m", "o", "n", "t", "h">>, <<"m", "o", "m">>>>],
    [dim |-> "campaign", keywords |-> <<<<"c", "a", "m", "p", "a", "i", "g", "n">>, <<"s", "e", "n", "d">>, <<"e", "m", "a", "i", "l">>>>],
    [dim |-> "funnel", keywords |-> <<<<"f", "u", "n", "n", "e", "l">>, <<"d", "e", "l", "i", "v", "e", "r", "i", "e", "s">>, <<"o", "p", "e", "n", "s">>, <<"c", "l", "i", "c", "k", "s">>, <<"c", "o", "n", "v", "e", "r", "s", "i", "o", "n">>>>]
>>

COMPARISON_KEYWORDS == <<<<"v", "s">>, <<"v", "e", "r", "s", "u", "s">>, <<"c", "o", "m", "p", "a", "r", "e">>, <<"c", "o", "m", "p", "a", "r", "i", "s", "o", "n">>, <<"a", "g", "a", "i", "n", "s", "t">>, <<"w", "i", "t", "h">>>>

TREND_KEYWORDS == <<<<"t", "r", "e", "n", "d">>, <<"o", "v", "e", "r", " ", "t", "i", "m", "e">>, <<"t", "i", "m", "e", "l", "i", "n", "e">>, <<"p", "r", "o", "g", "r", "e", "s", "s", "i", "o", "n">>, <<"c", "h", "a", "n", "g", "e">>>>

TREND_KEYWORDS_Index == <<<<"t", "r", "e", "n", "d">>, <<"o", "v", "e", "r", " ", "t", "i", "m", "e">>, <<"t", "i", "m", "e", "l", "i", "n", "e">>, <<"p", "r", "o", "g", "r", "e", "s", "s", "i", "o", "n">>, <<"c", "h", "a", "n", "g", "e">>, <<"m", "o", "n", "t", "h", " ", "o", "v", "e", "r", " ", "m", "o", "n", "t", "h">>, <<"m", "o", "m">>>>

SEGMENTATION_KEYWORDS == <<<<"b", "y">>, <<"b", "r", "e", "a", "k", "d", "o", "w", "n">>, <<"s", "e", "g", "m", "e", "n", "t">>, <<"s", "p", "l", "i", "t">>, <<"g", "r", "o", "u", "p">>>>

PROGRAM_MAPPINGS == <<
    [key |-> <<"a", "s", "g">>, mapped |-> <<p_ASG_Primary_Path, p_MCG_ASG_Path, p_PMax_ASG_Path>>],
    [key |-> <<"a", "s", "g", " ", "p", "r", "i", "m", "a", "r", "y">>, mapped |-> <<p_ASG_Primary_Path>>],
    [key |-> <<"a", "s", "g", " ", "p", "r", "i", "m", "a", "r", "y", " ", "p", "a", "t", "h">>, mapped |-> <<p_ASG_Primary_Path>>],
    [key |-> <<"m", "c", "g", " ", "a", "s", "g">>, mapped |-> <<p_MCG_ASG_Path>>],
    [key |-> <<"m", "c", "g", " ", "a", "s", "g", " ", "p", "a", "t", "h">>, mapped |-> <<p_MCG_ASG_Path>>],
    [key |-> <<"p", "m", "a", "x", " ", "a", "s", "g">>, mapped |-> <<p_PMax_ASG_Path>>],
    [key |-> <<"p", "m", "a", "x", " ", "a", "s", "g", " ", "p", "a", "t", "h">>, mapped |-> <<p_PMax_ASG_Path>>],
    [key |-> <<"l", "p", "w">>, mapped |-> <<p_LPW_Path>>],
    [key |-> <<"l", "p", "w", " ", "p", "a", "t", "h">>, mapped |-> <<p_LPW_Path>>]
>>

REGION_MAPPINGS == <<
    [key |-> <<"a", "m", "e", "r", "i", "c", "a">>, mapped |-> <<r_Americas>>],
    [key |-> <<"a", "m", "e", "r", "i", "c", "a", "s">>, mapped |-> <<r_Americas>>],
    [key |-> <<"u", "s">>, mapped |-> <<r_Americas>>],
    [key |-> <<"u", "s", "a">>, mapped |-> <<r_Americas>>],
    [key |-> <<"n", "o", "r", "t", "h", " ", "a", "m", "e", "r", "i", "c", "a">>, mapped |-> <<r_Americas>>],
    [key |-> <<"e", "u", "r", "o", "p", "e">>, mapped |-> <<r_EMEA>>],
    [key |-> <<"e", "m", "e", "a">>, mapped |-> <<r_EMEA>>],
    [key |-> <<"a", "s", "i", "a">>, mapped |-> <<r_APAC>>],
    [key |-> <<"a", "s", "i", "a", " ", "p", "a", "c", "i", "f", "i", "c">>, mapped |-> <<r_APAC>>],
    [key |-> <<"a", "p", "a", "c">>, mapped |-> <<r_APAC>>],
    [key |-> <<"l", "a", "t", "i", "n", " ", "a", "m", "e", "r", "i", "c", "a">>, mapped |-> <<r_Latin_America>>],
    [key |-> <<"a", "f", "r", "i", "c", "a">>, mapped |-> <<r_Africa>>]
>>

\* keywords.some(keyword => lowerQuery.includes(keyword))
someIncluded(keywords, lowerQuery) ==
    \E i \in 1..Len(keywords) : includes(lowerQuery, keywords[i])

\* the chain with the segmentation keywords tested first
queryTypeSegmentationFirst(lowerQuery, trendKeywords, dimensionKeywords) ==
    IF someIncluded(SEGMENTATION_KEYWORDS, lowerQuery) THEN "segmentation"
    ELSE IF someIncluded(COMPARISON_KEYWORDS, lowerQuery) THEN "comparison"
    ELSE IF someIncluded(trendKeywords, lowerQuery) THEN "trend"
    ELSE IF \E d \in 1..Len(dimensionKeywords) :
                someIncluded(dimensionKeywords[d].keywords, lowerQuery) THEN "funnel"
    ELSE "general"

\* the if / else-if chain that sets type
queryType(lowerQuery, trendKeywords, dimensionKeywords) ==
    IF someIncluded(COMPARISON_KEYWORDS, lowerQuery) THEN "comparison"
    ELSE IF someIncluded(trendKeywords, lowerQuery) THEN "trend"
    ELSE IF someIncluded(SEGMENTATION_KEYWORDS, lowerQuery) THEN "segmentation"
    ELSE IF \E d \in 1..Len(dimensionKeywords) :
                someIncluded(dimensionKeywords[d].keywords, lowerQuery) THEN "funnel"
    ELSE "general"

RECURSIVE extractDimensions(_, _)
extractDimensions(dimensionKeywords, lowerQuery) ==
    IF dimensionKeywords = <<>> THEN <<>>
    ELSE (IF someIncluded(Head(dimensionKeywords).keywords, lowerQuery)
          THEN <<Head(dimensionKeywords).dim>> ELSE <<>>)
         \o extractDimensions(Tail(dimensionKeywords), lowerQuery)

\* Object.entries(mappings).forEach: push what each key found in the query maps to
RECURSIVE pushMapped(_, _)
pushMapped(mappings, lowerQuery) ==
    IF mappings = <<>> THEN <<>>
    ELSE (IF includes(lowerQuery, Head(mappings).key) THEN Head(mappings).mapped ELSE <<>>)
         \o pushMapped(Tail(mappings), lowerQuery)

\* [...new Set(xs)]: the first occurrence of each element, in order
unique(xs) ==
    LET first == {i \in 1..Len(xs) : \A j \in 1..(i - 1) : xs[j] # xs[i]}
        RECURSIVE from(_)
        from(i) == IF i > Len(xs) THEN <<>>
                   ELSE (IF i \in first THEN <<xs[i]>> ELSE <<>>) \o from(i + 1)
    IN  from(1)

\* the values of one live column that the query text contains
RECURSIVE foundIn(_, _)
foundIn(values, lowerQuery) ==
    IF values = <<>> THEN <<>>
    ELSE (IF includes(lowerQuery, toLowerCase(Head(values))) THEN <<Head(values)>> ELSE <<>>)
         \o foundIn(Tail(values), lowerQuery)

\* extractEntities of utils/queryAnalyzer.ts: programs, then lessons
extractEntities(query, live) ==
    foundIn(unique(live.programs), toLowerCase(query))
        \o foundIn(unique(live.lessons), toLowerCase(query))

\* extractEntities of pages/Index.tsx: programs, lessons, then regions
extractEntities_Index(query, live) ==
    extractEntities(query, live) \o foundIn(unique(live.regions), toLowerCase(query))

\* QueryAnalyzer.analyzeQuery of utils/queryAnalyzer.ts
QueryAnalyzer_analyzeQuery(query, live) ==
    LET lowerQuery == toLowerCase(query)
    IN  [type |-> queryType(lowerQuery, TREND_KEYWORDS, DIMENSION_KEYWORDS),
         entities |-> extractEntities(query, live),
         dimensions |-> extractDimensions(DIMENSION_KEYWORDS, lowerQuery)]

\* QueryAnalyzer.analyzeQuery of pages/Index.tsx
QueryAnalyzer_analyzeQuery_Index(query, live) ==
    LET lowerQuery == toLowerCase(query)
        programs == pushMapped(PROGRAM_MAPPINGS, lowerQuery)
        regions == pushMapped(REGION_MAPPINGS, lowerQuery)
    IN  [type |-> queryType(lowerQuery, TREND_KEYWORDS_Index, DIMENSION_KEYWORDS_Index),
         entities |-> unique(extractEntities_Index(query, live) \o programs \o regions),
         dimensions |-> extractDimensions(DIMENSION_KEYWORDS_Index, lowerQuery),
         programs |-> unique(programs),
         regions |-> unique(regions)]

s_asg_primary_path == <<"a", "s", "g", " ", "p", "r", "i", "m", "a", "r", "y", " ", "p", "a", "t", "h">>
s_asg_primary == <<"a", "s", "g", " ", "p", "r", "i", "m", "a", "r", "y">>
s_lwp_path == <<"l", "w", "p", " ", "p", "a", "t", "h">>
s_lwp == <<"l", "w", "p">>
s_quarter == <<"q", "u", "a", "r", "t", "e", "r">>
QuarterDigits == {"1", "2", "3", "4"}
parseQueryRegions == <<<<"n", "o", "r", "t", "h", " ", "a", "m", "e", "r", "i", "c", "a">>, <<"e", "u", "r", "o", "p", "e">>, <<"a", "s", "i", "a">>, <<"l", "a", "t", "i", "n", " ", "a", "m", "e", "r", "i", "c", "a">>, <<"a", "f", "r", "i", "c", "a">>>>
Years == {<<"2", "0", "2", "5">>, <<"2", "0", "2", "6">>}    \* new Date().getFullYear()

\* /q([1-4])/ matches at i
qDigitAt(s, i) == s[i] = "q" /\ i + 1 <= Len(s) /\ s[i + 1] \in QuarterDigits

\* the index of the character after "quarter" and the white space that follows it
afterQuarter(s, i) ==
    CHOOSE j \in (i + 7)..(Len(s) + 1) :
        /\ \A k \in (i + 7)..(j - 1) : isSpace(s[k])
        /\ j <= Len(s) => ~isSpace(s[j])

\* /quarter\s*([1-4])/ matches at i
quarterDigitAt(s, i) ==
    /\ i + 6 <= Len(s) /\ SubSeq(s, i, i + 6) = s_quarter
    /\ afterQuarter(s, i) <= Len(s) /\ s[afterQuarter(s, i)] \in QuarterDigits

\* lowerQuery.match(/q([1-4])|quarter\s*([1-4])/): the digit of the leftmost match,
\* <<>> for no match
quarterMatch(s) ==
    LET at == {i \in 1..Len(s) : qDigitAt(s, i) \/ quarterDigitAt(s, i)}
        i == CHOOSE m \in at : \A n \in at : m <= n
    IN  IF at = {} THEN <<>>
        ELSE IF qDigitAt(s, i) THEN <<s[i + 1]>> ELSE <<s[afterQuarter(s, i)]>>

\* the first region of the list that the query contains, <<>> for none
RECURSIVE firstIncluded(_, _)
firstIncluded(regions, lowerQuery) ==
    IF regions = <<>> THEN <<>>
    ELSE IF includes(lowerQuery, Head(regions)) THEN Head(regions)
    ELSE firstIncluded(Tail(regions), lowerQuery)

NoFilters == [f \in {} |-> <<>>]

programFilter(lowerQuery, filters) ==
    IF \/ includes(lowerQuery, s_asg_primary_path)
       \/ includes(lowerQuery, s_asg_primary)
       \/ includes(lowerQuery, s_asg)
    THEN setField(filters, "program", p_ASG_Primary_Path)
    ELSE IF includes(lowerQuery, s_lwp_path) \/ includes(lowerQuery, s_lwp)
    THEN setField(filters, "program", p_LPW_Path)
    ELSE filters

quarterFilter(lowerQuery, year, filters) ==
    IF quarterMatch(lowerQuery) # <<>>
    THEN setField(filters, "quarter", year \o <<"-", "Q">> \o quarterMatch(lowerQuery))
    ELSE filters

regionFilter(lowerQuery, filters) ==
    IF firstIncluded(parseQueryRegions, lowerQuery) # <<>>
    THEN setField(filters, "region", firstIncluded(parseQueryRegions, lowerQuery))
    ELSE filters

\* IntelligentQueryProcessor.parseQuery: the filters of the intent
parseQuery(query, year) ==
    LET lowerQuery == toLowerCase(query)
    IN  [filters |-> regionFilter(lowerQuery,
                        quarterFilter(lowerQuery, year,
                            programFilter(lowerQuery, NoFilters)))]

(***************************************************************************)
(* The queries and the live values of the intent specification.            *)
(***************************************************************************)
MaxPhrases == 2     \* a query is at most this many phrases, joined by spaces

Phrases == <<
    <<"A", "S", "G">>,
    <<"a", "s", "g">>,
    <<"A", "S", "G", " ", "P", "r", "i", "m", "a", "r", "y">>,
    <<"M", "C", "G", " ", "A", "S", "G">>,
    <<"P", "M", "a", "x", " ", "A", "S", "G">>,
    <<"L", "P", "W">>,
    <<"A", "S", "G", " ", "P", "r", "i", "m", "a", "r", "y", " ", "P", "a", "t", "h">>,
    <<"M", "C", "G", " ", "A", "S", "G", " ", "P", "a", "t", "h">>,
    <<"P", "M", "a", "x", " ", "A", "S", "G", " ", "P", "a", "t", "h">>,
    <<"L", "P", "W", " ", "P", "a", "t", "h">>,
    <<"A", "m", "e", "r", "i", "c", "a", "s">>,
    <<"E", "M", "E", "A">>,
    <<"L", "a", "t", "i", "n", " ", "A", "m", "e", "r", "i", "c", "a">>,
    <<"A", "f", "r", "i", "c", "a">>,
    <<"n", "o", "r", "t", "h", " ", "a", "m", "e", "r", "i", "c", "a">>,
    <<"c", "o", "m", "p", "a", "r", "e">>,
    <<"t", "r", "e", "n", "d">>,
    <<"b", "y", " ", "r", "e", "g", "i", "o", "n">>,
    <<"Q", "2">>,
    <<"h", "e", "l", "l", "o">>
>>

RECURSIVE QueriesOfLen(_)
QueriesOfLen(n) ==
    IF n = 1 THEN {Phrases[i] : i \in 1..Len(Phrases)}
    ELSE {q \o <<" ">> \o Phrases[i] : q \in QueriesOfLen(n - 1), i \in 1..Len(Phrases)}

IntentQueries == UNION {QueriesOfLen(n) : n \in 1..MaxPhrases}

l_Intro == <<"I", "n", "t", "r", "o">>
q_2026_Q2 == <<"2", "0", "2", "6", "-", "Q", "2">>

\* the distinct values of the columns: every canonical name, or a part of them
LiveValueSets == {
    [programs |-> <<p_ASG_Primary_Path, p_MCG_ASG_Path, p_PMax_ASG_Path, p_LPW_Path>>,
     lessons |-> <<l_Intro>>,
     regions |-> <<r_Americas, r_EMEA, r_APAC, r_Latin_America, r_Africa>>,
     quarters |-> <<q_2026_Q2>>],
    [programs |-> <<p_LPW_Path, p_ASG_Primary_Path>>,
     lessons |-> <<>>,
     regions |-> <<r_EMEA, r_APAC>>,
     quarters |-> <<>>]}

IntentUnchanged == UNCHANGED <<userQuery, liveValues, stmt, client, edge, dbQuery, executed, dbResult, reply>>

Analyze ==
    /\ pc = "ask"
    /\ client = "queryAnalyzer.ts"
    /\ result' = QueryAnalyzer_analyzeQuery(userQuery, liveValues)
    /\ pc' = "done"
    /\ IntentUnchanged

Analyze_Index ==
    /\ pc = "ask"
    /\ client = "Index.tsx"
    /\ result' = QueryAnalyzer_analyzeQuery_Index(userQuery, liveValues)
    /\ pc' = "done"
    /\ IntentUnchanged

ParseQuery ==
    /\ pc = "ask"
    /\ client = "part_012"
    /\ \E year \in Years : result' = parseQuery(userQuery, year)
    /\ pc' = "done"
    /\ IntentUnchanged

InitIntent ==
    /\ userQuery \in IntentQueries
    /\ liveValues \in LiveValueSets
    /\ client \in {"queryAnalyzer.ts", "Index.tsx", "part_012"}
    /\ edge = "none"
    /\ stmt = <<>>
    /\ pc = "ask"
    /\ dbQuery = <<>>
    /\ executed = NotExecuted
    /\ dbResult = NoResult
    /\ reply = NoReply
    /\ result = Pending

NextIntent ==
    \/ Analyze
    \/ Analyze_Index
    \/ ParseQuery

SpecIntent == InitIntent /\ [][NextIntent]_vars

(***************************************************************************)
(* Properties of the intent.                                               *)
(***************************************************************************)
ValuesOf(xs) == {xs[i] : i \in 1..Len(xs)}

IntentRead(c) == pc = "done" /\ client = c /\ liveValues \in LiveValueSets

\* C14: every program, region and quarter placed in a parsed intent or in a query
\* context is one of the live distinct values of its column; an alias key of the
\* query text is never the filter value, and a canonical name the live data does
\* not have is left out.
C14_FiltersAreLiveValues ==
    /\ IntentRead("part_012") =>
        /\ Has(result.filters, "program") => result.filters.program \in ValuesOf(liveValues.programs)
        /\ Has(result.filters, "region") => result.filters.region \in ValuesOf(liveValues.regions)
        /\ Has(result.filters, "quarter") => result.filters.quarter \in ValuesOf(liveValues.quarters)
    /\ IntentRead("Index.tsx") =>
        /\ ValuesOf(result.programs) \subseteq ValuesOf(liveValues.programs)
        /\ ValuesOf(result.regions) \subseteq ValuesOf(liveValues.regions)

a_asg_primary == <<"a", "s", "g", " ", "p", "r", "i", "m", "a", "r", "y">>
a_mcg_asg == <<"m", "c", "g", " ", "a", "s", "g">>
a_pmax_asg == <<"p", "m", "a", "x", " ", "a", "s", "g">>
a_lpw == <<"l", "p", "w">>

\* the one canonical program of each specific alias
SpecificAliases ==
    {<<a_asg_primary, p_ASG_Primary_Path>>, <<a_mcg_asg, p_MCG_ASG_Path>>,
     <<a_pmax_asg, p_PMax_ASG_Path>>, <<a_lpw, p_LPW_Path>>}

\* C15: the umbrella alias 'ASG', in any letter case, resolves to exactly the three
\* programs ASG Primary Path, MCG ASG Path and PMax ASG Path, and a specific alias
\* ('ASG Primary', 'MCG ASG', 'PMax ASG', 'LPW') resolves to exactly its one program.
C15_UmbrellaThreeSpecificOne ==
    IntentRead("Index.tsx") =>
        /\ toLowerCase(userQuery) = s_asg =>
              ValuesOf(result.programs) = {p_ASG_Primary_Path, p_MCG_ASG_Path, p_PMax_ASG_Path}
        /\ \A a \in SpecificAliases :
              toLowerCase(userQuery) = a[1] => result.programs = <<a[2]>>

CanonicalPrograms == {p_ASG_Primary_Path, p_MCG_ASG_Path, p_PMax_ASG_Path, p_LPW_Path}
CanonicalRegions == {r_Americas, r_EMEA, r_APAC, r_Latin_America, r_Africa}

\* C16: resolving a text that is exactly one canonical program name, or exactly one
\* canonical region name, yields that one name and no other.
C16_CanonicalNamesResolveToThemselves ==
    IntentRead("Index.tsx") =>
        /\ userQuery \in CanonicalPrograms => result.programs = <<userQuery>>
        /\ userQuery \in CanonicalRegions => result.regions = <<userQuery>>

u_compare_by_region == <<"c", "o", "m", "p", "a", "r", "e", " ", "b", "y", " ", "r", "e", "g", "i", "o", "n">>
u_hello == <<"h", "e", "l", "l", "o">>

TrendKeywordsOf(c) == IF c = "Index.tsx" THEN TREND_KEYWORDS_Index ELSE TREND_KEYWORDS
DimensionKeywordsOf(c) == IF c = "Index.tsx" THEN DIMENSION_KEYWORDS_Index ELSE DIMENSION_KEYWORDS

Compares == someIncluded(COMPARISON_KEYWORDS, toLowerCase(userQuery))
Trends == someIncluded(TrendKeywordsOf(client), toLowerCase(userQuery))
Segments == someIncluded(SEGMENTATION_KEYWORDS, toLowerCase(userQuery))
NamesDimension ==
    \E d \in 1..Len(DimensionKeywordsOf(client)) :
        someIncluded(DimensionKeywordsOf(client)[d].keywords, toLowerCase(userQuery))

Typed == pc = "done" /\ client \in {"queryAnalyzer.ts", "Index.tsx"} /\ liveValues \in LiveValueSets

\* C19: analyzeQuery of QueryAnalyzer gives every query exactly one type, the first
\* that matches in the order comparison keyword, trend keyword, segmentation
\* (breakdown) keyword, dimension or funnel keyword, general: 'compare by region'
\* is a comparison, and a query with none of the keywords is general.
C19_TypeByFirstMatch ==
    Typed =>
        /\ result.type \in {"comparison", "trend", "segmentation", "funnel", "general"}
        /\ Compares => result.type = "comparison"
        /\ ~Compares /\ Trends => result.type = "trend"
        /\ ~Compares /\ ~Trends /\ Segments => result.type = "segmentation"
        /\ ~Compares /\ ~Trends /\ ~Segments /\ NamesDimension => result.type = "funnel"
        /\ ~Compares /\ ~Trends /\ ~Segments /\ ~NamesDimension => result.type = "general"
        /\ userQuery = u_compare_by_region => result.type = "comparison"
        /\ userQuery = u_hello => result.type = "general"

C19_Witness ==
    /\ Typed /\ client = "Index.tsx"
    /\ userQuery = u_compare_by_region
    /\ Compares /\ Segments /\ NamesDimension
    /\ result.type = "comparison"

(***************************************************************************)
(* Matching a query against the live names: calculateSimilarity,           *)
(* findBestMatches and processUserQuery of components/ChatBot.tsx and of   *)
(* part_003.  A score is the exact fraction num / den.                     *)
(***************************************************************************)
PROGRAM_ALIASES == <<
    [key |-> <<"a", "s", "g", " ", "p", "r", "i", "m", "a", "r", "y", " ", "p", "a", "t", "h">>, program |-> p_ASG_Primary_Path],
    [key |-> <<"a", "s", "g", " ", "p", "r", "i", "m", "a", "r", "y">>, program |-> p_ASG_Primary_Path],
    [key |-> <<"a", "s", "g">>, program |-> p_ASG_Primary_Path],
    [key |-> <<"l", "w", "p", " ", "p", "a", "t", "h">>, program |-> p_LPW_Path],
    [key |-> <<"l", "w", "p">>, program |-> p_LPW_Path],
    [key |-> <<"l", "e", "a", "r", "n", "i", "n", "g", " ", "p", "a", "t", "h">>, program |-> p_LPW_Path],
    [key |-> <<"p", "r", "i", "m", "a", "r", "y", " ", "p", "a", "t", "h">>, program |-> p_ASG_Primary_Path]>>

\* the words findBestMatches of ChatBot.tsx removes from the query
StopWords == {
    <<"p", "r", "o", "g", "r", "a", "m">>, <<"p", "r", "o", "g", "r", "a", "m", "s">>, <<"l", "e", "s", "s", "o", "n">>,
    <<"l", "e", "s", "s", "o", "n", "s">>, <<"p", "e", "r", "f", "o", "r", "m", "a", "n", "c", "e">>, <<"h", "o", "w">>,
    <<"i", "s">>, <<"d", "o", "i", "n", "g">>, <<"s", "h", "o", "w">>,
    <<"m", "e">>, <<"t", "h", "e">>, <<"w", "i", "t", "h">>,
    <<"v", "s">>, <<"v", "e", "r", "s", "u", "s">>, <<"c", "o", "m", "p", "a", "r", "e">>,
    <<"c", "o", "m", "p", "a", "r", "i", "s", "o", "n">>}

\* the words findBestMatches of part_003 removes from the query
StopWords_part003 == StopWords \cup {
    <<"f", "u", "n", "n", "e", "l">>, <<"m", "e", "t", "r", "i", "c", "s">>, <<"d", "e", "l", "i", "v", "e", "r", "i", "e", "s">>,
    <<"o", "p", "e", "n", "s">>, <<"c", "l", "i", "c", "k", "s">>, <<"t", "o", "t", "a", "l">>,
    <<"g", "i", "v", "e">>}

\* the words calculateSimilarity of part_003 drops from the query: the same set
SimilarityStopWords == StopWords_part003

\* the indices of 1..n that pass the test, in order
indicesWhere(n, Test(_)) == SelectSeq([i \in 1..n |-> i], Test)

wordRunStarts(s) == {i \in 1..Len(s) : s[i] \in WordChars /\ (i = 1 \/ s[i - 1] \notin WordChars)}

wordRunEnd(s, i) ==
    CHOOSE j \in i..Len(s) :
        (\A k \in i..j : s[k] \in WordChars) /\ (j = Len(s) \/ s[j + 1] \notin WordChars)

\* s.replace(/\b(w1|w2|...)\b/g, ''): every run of word characters that is one of
\* the words is removed
removeWords(s, words) ==
    LET removed == UNION {i..wordRunEnd(s, i) :
                       i \in {r \in wordRunStarts(s) : SubSeq(s, r, wordRunEnd(s, r)) \in words}}
        kept == indicesWhere(Len(s), LAMBDA i : i \notin removed)
    IN  [k \in 1..Len(kept) |-> s[kept[k]]]

cleanQuery(query, words) == trim(removeWords(toLowerCase(query), words), JsWhiteSpace)

tokenEnd(s, i) ==
    CHOOSE j \in i..Len(s) : (\A k \in i..j : ~isSpace(s[k])) /\ (j = Len(s) \/ isSpace(s[j + 1]))

\* s.split(/\s+/): the runs of other characters, with an empty string in front of
\* leading and behind trailing white space, and [''] for the empty string
split(s) ==
    LET starts == indicesWhere(Len(s), LAMBDA i : ~isSpace(s[i]) /\ (i = 1 \/ isSpace(s[i - 1])))
    IN  IF s = <<>> THEN <<<<>>>>
        ELSE (IF isSpace(s[1]) THEN <<<<>>>> ELSE <<>>)
             \o [k \in 1..Len(starts) |-> SubSeq(s, starts[k], tokenEnd(s, starts[k]))]
             \o (IF isSpace(s[Len(s)]) THEN <<<<>>>> ELSE <<>>)

\* words.join(' ')
RECURSIVE join(_)
join(words) ==
    IF words = <<>> THEN <<>>
    ELSE IF Len(words) = 1 THEN words[1]
    ELSE words[1] \o <<" ">> \o join(Tail(words))

maxOf(a, b) == IF a >= b THEN a ELSE b

Score(num, den) == [num |-> num, den |-> den]

\* word1 === word2 || word1.includes(word2) || word2.includes(word1)
wordsMatch(word1, word2) == word1 = word2 \/ includes(word1, word2) \/ includes(word2, word1)

\* calculateSimilarity without the test of containment of the whole strings
calculateSimilarityByWords(str1, str2) ==
    LET s1 == trim(toLowerCase(str1), JsWhiteSpace)
        s2 == trim(toLowerCase(str2), JsWhiteSpace)
        words1 == split(s1)
        words2 == split(s2)
        matchCount == Cardinality({i \in 1..Len(words1) :
                          \E j \in 1..Len(words2) : wordsMatch(words1[i], words2[j])})
    IN  IF s1 = s2 THEN Score(1, 1)
        ELSE Score(matchCount, maxOf(Len(words1), Len(words2)))

\* calculateSimilarity of ChatBot.tsx
calculateSimilarity(str1, str2) ==
    LET s1 == trim(toLowerCase(str1), JsWhiteSpace)
        s2 == trim(toLowerCase(str2), JsWhiteSpace)
        words1 == split(s1)
        words2 == split(s2)
        matchCount == Cardinality({i \in 1..Len(words1) :
                          \E j \in 1..Len(words2) : wordsMatch(words1[i], words2[j])})
    IN  IF s1 = s2 THEN Score(1, 1)
        ELSE IF includes(s1, s2) \/ includes(s2, s1) THEN Score(4, 5)
        ELSE Score(matchCount, maxOf(Len(words1), Len(words2)))

\* what one word of the query adds to the score, in tenths: the first word of the
\* target that is equal to it (1.0) or that contains it or is contained in it (0.8)
wordScore(queryWord, targetWords) ==
    LET hits == {j \in 1..Len(targetWords) : wordsMatch(queryWord, targetWords[j])}
    IN  IF hits = {} THEN 0
        ELSE IF queryWord = targetWords[CHOOSE j \in hits : \A h \in hits : j <= h] THEN 10 ELSE 8

RECURSIVE sumWordScores(_, _)
sumWordScores(queryWords, targetWords) ==
    IF queryWords = <<>> THEN 0
    ELSE wordScore(Head(queryWords), targetWords) + sumWordScores(Tail(queryWords), targetWords)

\* calculateSimilarity of part_003.  The sum of 1.0 and 0.8 is kept in tenths.  For
\* the queries and the names of this model, of up to three phrases, the doubles of
\* the code pass 0.3 and are ordered exactly as these fractions.
calculateSimilarity_part003(query, target) ==
    LET queryWords == SelectSeq(split(toLowerCase(query)), LAMBDA w : w \notin SimilarityStopWords)
        targetWords == split(toLowerCase(target))
        queryPhrase == join(queryWords)
        targetPhrase == join(targetWords)
        maxPossibleScore == maxOf(Len(queryWords), Len(targetWords))
    IN  IF queryPhrase = targetPhrase THEN Score(1, 1)
        ELSE IF includes(queryPhrase, targetPhrase) \/ includes(targetPhrase, queryPhrase)
        THEN Score(9, 10)
        ELSE IF maxPossibleScore > 0
        THEN Score(sumWordScores(queryWords, targetWords), 10 * maxPossibleScore)
        ELSE Score(0, 1)

\* a.score > b.score
greater(a, b) == a.num * b.den > b.num * a.den

ThresholdNum == 3
ThresholdDen == 10

\* match.score >= 0.3
atLeastThreshold(score) == score.num * ThresholdDen >= ThresholdNum * score.den

\* match.score > 0.3
aboveThreshold(score) == score.num * ThresholdDen > ThresholdNum * score.den

\* matches.filter(match => match.score > 0.3).sort((a, b) => b.score - a.score)
\*        .map(match => match.item): the sort of an array is stable
bestMatches(uniqueItems, scores) ==
    LET kept == {i \in 1..Len(uniqueItems) : aboveThreshold(scores[i])}
        ahead(i) == {j \in kept : greater(scores[j], scores[i])
                                  \/ (~greater(scores[i], scores[j]) /\ j < i)}
    IN  [k \in 1..Cardinality(kept) |->
            uniqueItems[CHOOSE i \in kept : Cardinality(ahead(i)) = k - 1]]

\* PROGRAM_ALIASES[cleanQuery], <<>> for undefined
aliasOf(cleaned) ==
    LET hits == {i \in 1..Len(PROGRAM_ALIASES) : PROGRAM_ALIASES[i].key = cleaned}
    IN  IF hits = {} THEN <<>> ELSE PROGRAM_ALIASES[CHOOSE i \in hits : TRUE].program

\* [...new Set(data.map(item => item[column]).filter(Boolean))]
uniqueItemsOf(data) == unique(SelectSeq(data, LAMBDA item : item # <<>>))

columnOf(type, live) == IF type = "lesson" THEN live.lessons ELSE live.programs

\* findBestMatches of ChatBot.tsx; failed stands for error || !data
findBestMatches(query, type, live, failed) ==
    LET uniqueItems == uniqueItemsOf(columnOf(type, live))
        cleaned == cleanQuery(query, StopWords)
        aliasMatch == aliasOf(cleaned)
    IN  IF failed THEN <<>>
        ELSE IF type = "program" /\ aliasMatch # <<>> /\ aliasMatch \in ValuesOf(uniqueItems)
        THEN <<aliasMatch>>
        ELSE bestMatches(uniqueItems,
                 [i \in 1..Len(uniqueItems) |-> calculateSimilarity(cleaned, uniqueItems[i])])

\* findBestMatches of part_003
findBestMatches_part003(query, type, live, failed) ==
    LET uniqueItems == uniqueItemsOf(columnOf(type, live))
        cleaned == cleanQuery(query, StopWords_part003)
        aliasMatch == aliasOf(cleaned)
    IN  IF failed THEN <<>>
        ELSE IF type = "program" /\ aliasMatch # <<>> /\ aliasMatch \in ValuesOf(uniqueItems)
        THEN <<aliasMatch>>
        ELSE bestMatches(uniqueItems,
                 [i \in 1..Len(uniqueItems) |-> calculateSimilarity_part003(cleaned, uniqueItems[i])])

s_compare == <<"c", "o", "m", "p", "a", "r", "e">>
s_vs == <<"v", "s">>
s_versus == <<"v", "e", "r", "s", "u", "s">>
s_with_spaced == <<" ", "w", "i", "t", "h", " ">>

\* isComparison of processUserQuery
isComparison(lowerQuery) ==
    \/ includes(lowerQuery, s_compare) \/ includes(lowerQuery, s_vs)
    \/ includes(lowerQuery, s_versus) \/ includes(lowerQuery, s_with_spaced)

Fetch(call, names) == [call |-> call, names |-> names]

Reply(kind, fetched) == [reply |-> kind, fetched |-> fetched]

\* processUserQuery behind the comparison branch: the performance of the first
\* matching program, else of the first matching lesson, else the general replies
\* (totals, lists, help), which are one reply here.  lacking holds the names whose
\* analysis returns null.
performanceReply(programs, lessons, lacking, fetched, analyze) ==
    LET ofProgram == IF Len(programs) > 0 THEN <<Fetch(analyze, <<programs[1]>>)>> ELSE <<>>
        ofLesson == IF Len(lessons) > 0 THEN <<Fetch(analyze, <<lessons[1]>>)>> ELSE <<>>
    IN  IF Len(programs) > 0 /\ programs[1] \notin lacking
        THEN Reply("program performance", fetched \o ofProgram)
        ELSE IF Len(lessons) > 0 /\ lessons[1] \notin lacking
        THEN Reply("lesson performance", fetched \o ofProgram \o ofLesson)
        ELSE Reply("general", fetched \o ofProgram \o ofLesson)

\* processUserQuery of ChatBot.tsx; programs and lessons are what
\* findBestMatches(query, 'program') and findBestMatches(query, 'lesson') return
processUserQuery(query, programs, lessons, lacking) ==
    LET compared == <<Fetch("comparePrograms", <<programs[1], programs[2]>>)>>
    IN  IF isComparison(toLowerCase(query))
        THEN IF Len(programs) >= 2
             THEN IF programs[1] \notin lacking /\ programs[2] \notin lacking
                  THEN Reply("comparison", compared)
                  ELSE performanceReply(programs, lessons, lacking, compared, "analyzeProgramPerformance")
             ELSE IF Len(programs) = 1 THEN Reply("found program", <<>>)
             ELSE Reply("no matching programs", <<>>)
        ELSE performanceReply(programs, lessons, lacking, <<>>, "analyzeProgramPerformance")

\* processUserQuery of part_003 without the attempt to compare the one program
\* with a lesson
processUserQuery_part003ProgramsOnly(query, programs, lessons, lacking) ==
    LET compared == <<Fetch("compareFunnelPerformance", <<programs[1], programs[2]>>)>>
    IN  IF isComparison(toLowerCase(query))
        THEN IF Len(programs) >= 2
             THEN IF programs[1] \notin lacking /\ programs[2] \notin lacking
                  THEN Reply("comparison", compared)
                  ELSE performanceReply(programs, lessons, lacking, compared, "analyzeFunnelPerformance")
             ELSE IF Len(programs) = 1 THEN Reply("found program", <<>>)
             ELSE Reply("no matching programs", <<>>)
        ELSE performanceReply(programs, lessons, lacking, <<>>, "analyzeFunnelPerformance")

\* processUserQuery of part_003
processUserQuery_part003(query, programs, lessons, lacking) ==
    LET compared == <<Fetch("compareFunnelPerformance", <<programs[1], programs[2]>>)>>
        withLesson == <<Fetch("compareFunnelPerformance", <<programs[1], lessons[1]>>)>>
    IN  IF isComparison(toLowerCase(query))
        THEN IF Len(programs) >= 2
             THEN IF programs[1] \notin lacking /\ programs[2] \notin lacking
                  THEN Reply("comparison", compared)
                  ELSE performanceReply(programs, lessons, lacking, compared, "analyzeFunnelPerformance")
             ELSE IF Len(programs) = 1
             THEN IF Len(lessons) >= 1
                  THEN IF programs[1] \notin lacking /\ lessons[1] \notin lacking
                       THEN Reply("comparison", withLesson)
                       ELSE Reply("found program", withLesson)
                  ELSE Reply("found program", <<>>)
             ELSE Reply("no matching programs", <<>>)
        ELSE performanceReply(programs, lessons, lacking, <<>>, "analyzeFunnelPerformance")

(***************************************************************************)
(* The queries and the live names of the matching specification.           *)
(***************************************************************************)
MatchPhrases == <<
    <<"c", "o", "m", "p", "a", "r", "e">>,
    <<"a", "s", "g">>,
    <<"L", "P", "W", " ", "P", "a", "t", "h">>,
    <<" ", "L", "P", "W", " ", "P", "a", "t", "h", " ">>,
    <<"l", "w", "p">>,
    <<"p", "r", "i", "m", "a", "r", "y", " ", "p", "a", "t", "h", "s">>,
    <<"3", " ", "2", " ", "1">>,
    <<"s", "h", "o", "w">>>>

RECURSIVE MatchQueriesOfLen(_)
MatchQueriesOfLen(n) ==
    IF n = 1 THEN {MatchPhrases[i] : i \in 1..Len(MatchPhrases)}
    ELSE {q \o <<" ">> \o MatchPhrases[i] : q \in MatchQueriesOfLen(n - 1), i \in 1..Len(MatchPhrases)}

MatchQueries == UNION {MatchQueriesOfLen(n) : n \in 1..MaxPhrases}

l_Intro_Path == <<"I", "n", "t", "r", "o", " ", "P", "a", "t", "h">>
l_ASG_Basics == <<"A", "S", "G", " ", "B", "a", "s", "i", "c", "s">>
p_ten_words == <<"1", " ", "2", " ", "3", " ", "4", " ", "5", " ", "6", " ", "7", " ", "8", " ", "9", " ", "0">>

LiveNames == {
    [programs |-> <<p_ASG_Primary_Path, p_LPW_Path, p_MCG_ASG_Path>>,
     lessons |-> <<l_Intro_Path, l_ASG_Basics>>],
    [programs |-> <<p_LPW_Path, p_ten_words, <<>>, p_ASG_Primary_Path, p_LPW_Path>>,
     lessons |-> <<>>],
    [programs |-> <<p_MCG_ASG_Path, p_PMax_ASG_Path>>,
     lessons |-> <<l_Intro>>]}

\* the names of the live columns; filter(Boolean) drops the empty ones
NamesOf(live) == (ValuesOf(live.programs) \cup ValuesOf(live.lessons)) \ {<<>>}

\* the names whose analysis returns null: none, one, or all
LackingSets(live) == {{}} \cup {{n} : n \in NamesOf(live)} \cup {NamesOf(live)}

MatchUnchanged == UNCHANGED <<userQuery, liveValues, stmt, client, edge, dbQuery, executed, dbResult, reply>>

CalculateSimilarity ==
    /\ pc = "ask"
    /\ client = "calculateSimilarity"
    /\ \E item \in NamesOf(liveValues) :
          result' = [str2 |-> item, score |-> calculateSimilarity(userQuery, item)]
    /\ pc' = "done"
    /\ MatchUnchanged

CalculateSimilarity_part003 ==
    /\ pc = "ask"
    /\ client = "calculateSimilarity_part003"
    /\ \E item \in NamesOf(liveValues) :
          result' = [str2 |-> item, score |-> calculateSimilarity_part003(userQuery, item)]
    /\ pc' = "done"
    /\ MatchUnchanged

FindBestMatches ==
    /\ pc = "ask"
    /\ client = "findBestMatches"
    /\ \E type \in {"program", "lesson"}, failed \in BOOLEAN :
          result' = [type |-> type, failed |-> failed,
                     matches |-> findBestMatches(userQuery, type, liveValues, failed)]
    /\ pc' = "done"
    /\ MatchUnchanged

FindBestMatches_part003 ==
    /\ pc = "ask"
    /\ client = "findBestMatches_part003"
    /\ \E type \in {"program", "lesson"}, failed \in BOOLEAN :
          result' = [type |-> type, failed |-> failed,
                     matches |-> findBestMatches_part003(userQuery, type, liveValues, failed)]
    /\ pc' = "done"
    /\ MatchUnchanged

\* processUserQuery up to the return of findBestMatches(query, 'program')
AwaitMatchingPrograms ==
    /\ pc = "ask"
    /\ client \in {"processUserQuery", "processUserQuery_part003"}
    /\ \E failed \in BOOLEAN :
          result' = [failed |-> failed,
                     programs |-> IF client = "processUserQuery"
                                  THEN findBestMatches(userQuery, "program", liveValues, failed)
                                  ELSE findBestMatches_part003(userQuery, "program", liveValues, failed)]
    /\ pc' = "matched"
    /\ MatchUnchanged

ProcessUserQuery ==
    /\ pc = "matched"
    /\ client = "processUserQuery"
    /\ \E lacking \in LackingSets(liveValues) :
          result' = processUserQuery(userQuery, result.programs,
                        findBestMatches(userQuery, "lesson", liveValues, result.failed), lacking)
                    @@ [lacking |-> lacking] @@ result
    /\ pc' = "done"
    /\ MatchUnchanged

ProcessUserQuery_part003 ==
    /\ pc = "matched"
    /\ client = "processUserQuery_part003"
    /\ \E lacking \in LackingSets(liveValues) :
          result' = processUserQuery_part003(userQuery, result.programs,
                        findBestMatches_part003(userQuery, "lesson", liveValues, result.failed), lacking)
                    @@ [lacking |-> lacking] @@ result
    /\ pc' = "done"
    /\ MatchUnchanged

InitMatch ==
    /\ userQuery \in MatchQueries
    /\ liveValues \in LiveNames
    /\ client \in {"calculateSimilarity", "calculateSimilarity_part003", "findBestMatches",
                   "findBestMatches_part003", "processUserQuery", "processUserQuery_part003"}
    /\ edge = "none"
    /\ stmt = <<>>
    /\ pc = "ask"
    /\ dbQuery = <<>>
    /\ executed = NotExecuted
    /\ dbResult = NoResult
    /\ reply = NoReply
    /\ result = Pending

NextMatch ==
    \/ CalculateSimilarity
    \/ CalculateSimilarity_part003
    \/ FindBestMatches
    \/ FindBestMatches_part003
    \/ AwaitMatchingPrograms
    \/ ProcessUserQuery
    \/ ProcessUserQuery_part003

SpecMatch == InitMatch /\ [][NextMatch]_vars

(***************************************************************************)
(* Properties of matching.                                                 *)
(***************************************************************************)
Scored == pc = "done" /\ client = "calculateSimilarity" /\ liveValues \in LiveNames

\* the two strings as calculateSimilarity compares them
S1 == trim(toLowerCase(userQuery), JsWhiteSpace)
S2 == trim(toLowerCase(result.str2), JsWhiteSpace)

OneContainsOther == includes(S1, S2) \/ includes(S2, S1)

DisjointTokens == ValuesOf(split(S1)) \cap ValuesOf(split(S2)) = {}

\* no word of the first string equals, contains or is contained in a word of the second
NoWordMatches ==
    \A i \in 1..Len(split(S1)) : \A j \in 1..Len(split(S2)) :
        ~wordsMatch(split(S1)[i], split(S2)[j])

IsScore(score, num, den) == score.num * den = num * score.den

Matched ==
    /\ pc = "done" /\ client = "findBestMatches" /\ liveValues \in LiveNames
    /\ ~result.failed

LiveItems == uniqueItemsOf(columnOf(result.type, liveValues))

AliasHit ==
    /\ result.type = "program"
    /\ aliasOf(cleanQuery(userQuery, StopWords)) \in ValuesOf(LiveItems)

ScoreOf(item) == calculateSimilarity(cleanQuery(userQuery, StopWords), item)

\* C17 as stated: calculateSimilarity is 1.0 for strings equal but for case and
\* surrounding white space, at least 0.8 when one contains the other, and 0 when
\* the token sets are disjoint; findBestMatches returns no candidate that scores 0.
C17_ZeroWhenTokensDisjoint ==
    /\ Scored =>
        /\ S1 = S2 => IsScore(result.score, 1, 1)
        /\ OneContainsOther => result.score.num * 5 >= 4 * result.score.den
        /\ ~OneContainsOther /\ DisjointTokens => result.score.num = 0
    /\ Matched =>
        \A item \in ValuesOf(result.matches) : ScoreOf(item).num # 0

\* C17: calculateSimilarity is 1.0 for strings equal but for case and surrounding
\* white space, 0.8 when they differ and one contains the other, and otherwise 0
\* exactly when no word of the one equals, contains or is contained in a word of
\* the other; findBestMatches returns no candidate that scores 0 unless the
\* candidate is the program of an alias hit.
C17_ZeroWhenNoWordMatches ==
    /\ Scored =>
        /\ S1 = S2 => IsScore(result.score, 1, 1)
        /\ S1 # S2 /\ OneContainsOther => IsScore(result.score, 4, 5)
        /\ ~OneContainsOther => (result.score.num = 0 <=> NoWordMatches)
    /\ Matched =>
        /\ AliasHit => result.matches = <<aliasOf(cleanQuery(userQuery, StopWords))>>
        /\ ~AliasHit => \A item \in ValuesOf(result.matches) : ScoreOf(item).num # 0

C17_Witness ==
    /\ Matched /\ ~AliasHit
    /\ result.matches # <<>>
    /\ \E item \in ValuesOf(LiveItems) :
          ScoreOf(item).num = 0 /\ item \notin ValuesOf(result.matches)

MatchedBy(c) ==
    /\ pc = "done" /\ client = c /\ liveValues \in LiveNames
    /\ ~result.failed

CleanedBy(c) ==
    cleanQuery(userQuery, IF c = "findBestMatches" THEN StopWords ELSE StopWords_part003)

AliasHitBy(c) == result.type = "program" /\ aliasOf(CleanedBy(c)) \in ValuesOf(LiveItems)

ScoreBy(c, item) ==
    IF c = "findBestMatches" THEN calculateSimilarity(CleanedBy(c), item)
    ELSE calculateSimilarity_part003(CleanedBy(c), item)

\* the place of a name in the live list
PlaceOf(item) == CHOOSE i \in 1..Len(LiveItems) : LiveItems[i] = item

SameScore(a, b) == a.num * b.den = b.num * a.den

\* C18: when no alias hits, findBestMatches returns exactly the live candidates
\* whose score is greater than 0.3 (a score of exactly 0.3 is left out), by
\* non-increasing score, candidates of equal score in their order in the live list.
C18_AboveThresholdSortedStable ==
    \A c \in {"findBestMatches", "findBestMatches_part003"} :
        MatchedBy(c) /\ ~AliasHitBy(c) =>
            /\ ValuesOf(result.matches) =
                   {item \in ValuesOf(LiveItems) :
                        ScoreBy(c, item).num * 10 > 3 * ScoreBy(c, item).den}
            /\ \A k, l \in 1..Len(result.matches) :
                   k < l =>
                       /\ result.matches[k] # result.matches[l]
                       /\ ~greater(ScoreBy(c, result.matches[l]), ScoreBy(c, result.matches[k]))
                       /\ SameScore(ScoreBy(c, result.matches[k]), ScoreBy(c, result.matches[l]))
                              => PlaceOf(result.matches[k]) < PlaceOf(result.matches[l])

C18_Witness ==
    /\ MatchedBy("findBestMatches_part003") /\ ~AliasHitBy("findBestMatches_part003")
    /\ Len(result.matches) >= 2
    /\ SameScore(ScoreBy(client, result.matches[1]), ScoreBy(client, result.matches[2]))
    /\ \E item \in ValuesOf(LiveItems) : item \notin ValuesOf(result.matches)

Replied(c) == pc = "done" /\ client = c /\ liveValues \in LiveNames

IsComparisonQuery ==
    \E w \in {s_compare, s_vs, s_versus, s_with_spaced} : includes(toLowerCase(userQuery), w)

ComparisonFetches ==
    {k \in 1..Len(result.fetched) :
        result.fetched[k].call \in {"comparePrograms", "compareFunnelPerformance"}}

\* the lessons findBestMatches of part_003 finds for the query
MatchingLessons == findBestMatches_part003(userQuery, "lesson", liveValues, result.failed)

\* C20 as stated: for a comparison query a comparison is fetched only when at least
\* two programs are resolved; with exactly one the reply reports the single match
\* and no comparison is fetched.
C20_ComparesOnlyTwoPrograms ==
    \A c \in {"processUserQuery", "processUserQuery_part003"} :
        Replied(c) /\ IsComparisonQuery =>
            /\ ComparisonFetches # {} => Len(result.programs) >= 2
            /\ Len(result.programs) = 1 =>
                  result.reply = "found program" /\ ComparisonFetches = {}

\* C20: for a comparison query a comparison is fetched exactly when two programs
\* are resolved or, in part_003, one program and at least one lesson; with exactly
\* one program, and in part_003 no lesson, the reply reports the single match and
\* nothing is fetched.
C20_ComparesTwoEntities ==
    /\ Replied("processUserQuery") /\ IsComparisonQuery =>
        /\ ComparisonFetches # {} <=> Len(result.programs) >= 2
        /\ Len(result.programs) = 1 => result.reply = "found program" /\ result.fetched = <<>>
    /\ Replied("processUserQuery_part003") /\ IsComparisonQuery =>
        /\ ComparisonFetches # {} <=>
               \/ Len(result.programs) >= 2
               \/ Len(result.programs) = 1 /\ Len(MatchingLessons) >= 1
        /\ Len(result.programs) >= 2 =>
               result.fetched[1] = Fetch("compareFunnelPerformance",
                                         <<result.programs[1], result.programs[2]>>)
        /\ Len(result.programs) = 1 /\ MatchingLessons = <<>> =>
               result.reply = "found program" /\ result.fetched = <<>>
        /\ Len(result.programs) = 1 /\ MatchingLessons # <<>> =>
               /\ result.fetched = <<Fetch("compareFunnelPerformance",
                                           <<result.programs[1], MatchingLessons[1]>>)>>
               /\ result.reply = IF {result.programs[1], MatchingLessons[1]} \cap result.lacking = {}
                                 THEN "comparison" ELSE "found program"

C20_Witness ==
    /\ Replied("processUserQuery_part003") /\ IsComparisonQuery
    /\ Len(result.programs) = 1 /\ MatchingLessons # <<>>
    /\ result.reply = "comparison"
    /\ ComparisonFetches # {}

(***************************************************************************)
(* The comparison of two programs: comparePrograms of ChatBot.tsx issues   *)
(* two analyzeProgramPerformance fetches at once and joins them with       *)
(* Promise.all; processUserQuery goes on to the single-program and lesson  *)
(* branches when the comparison is null.  In this specification            *)
(*   liveValues  holds what findBestMatches returned for the query,        *)
(*   stmt        the time filter of the turn,                              *)
(*   dbQuery     the fetches issued so far, in the order of their calls,   *)
(*   dbResult    the response of each fetch, Pending until it arrives,     *)
(*   executed    the order in which the responses arrived,                 *)
(*   result      the value comparePrograms resolved to,                    *)
(*   reply       the response processUserQuery returns.                    *)
(***************************************************************************)
MaxCustomers == 2

s_Unknown == <<"U", "n", "k", "n", "o", "w", "n">>

s_Managed == <<"M", "a", "n", "a", "g", "e", "d">>

s_DE == <<"D", "E">>

\* the rows a fetch can return: one with every column filled, one with the
\* breakdown columns empty
OnboardingRows == {
    [lesson_name_1 |-> l_Intro, acq_region_1 |-> r_EMEA, country_code_1 |-> s_DE,
     assignment_status_1 |-> s_Managed],
    [lesson_name_1 |-> <<>>, acq_region_1 |-> <<>>, country_code_1 |-> <<>>,
     assignment_status_1 |-> <<>>]}

\* { data, error } of an awaited supabase query
Responses ==
    {[error |-> TRUE, data |-> <<>>]}
       \cup {[error |-> FALSE, data |-> d] :
                d \in UNION {[1..n -> OnboardingRows] : n \in 0..MaxCustomers}}

\* data.reduce((acc, record) => { const k = record[f] || 'Unknown'; acc[k] = (acc[k] || 0) + 1 })
breakdown(data, f) ==
    LET keyOf(record) == IF record[f] = <<>> THEN s_Unknown ELSE record[f]
    IN  [k \in {keyOf(data[i]) : i \in 1..Len(data)} |->
            Cardinality({i \in 1..Len(data) : keyOf(data[i]) = k})]

Null == [isNull |-> TRUE]

\* analyzeProgramPerformance behind its await: null on an error and on no rows
analyzeProgramPerformance(programName, timeFilter, response) ==
    IF response.error THEN Null
    ELSE IF Len(response.data) = 0 THEN Null
    ELSE [isNull |-> FALSE,
          programName |-> programName,
          totalCustomers |-> Len(response.data),
          lessonBreakdown |-> breakdown(response.data, "lesson_name_1"),
          regionBreakdown |-> breakdown(response.data, "acq_region_1"),
          timeFilter |-> timeFilter]

\* analyzeLessonPerformance behind its await
analyzeLessonPerformance(lessonName, timeFilter, response) ==
    IF response.error THEN Null
    ELSE IF Len(response.data) = 0 THEN Null
    ELSE [isNull |-> FALSE,
          lessonName |-> lessonName,
          totalCustomers |-> Len(response.data),
          regionBreakdown |-> breakdown(response.data, "acq_region_1"),
          countryBreakdown |-> breakdown(response.data, "country_code_1"),
          managedVsUnmanaged |-> breakdown(response.data, "assignment_status_1"),
          timeFilter |-> timeFilter]

abs(n) == IF n < 0 THEN 0 - n ELSE n

\* ((customerDiff / total) * 100).toFixed(1), in tenths of a percent
toFixed1(customerDiff, total) ==
    LET tenths == (abs(customerDiff) * 2000 + total) \div (2 * total)
    IN  IF customerDiff < 0 THEN 0 - tenths ELSE tenths

\* Promise.all in any order of completion: the array of the values in the order
\* of the promises handed to it
PromiseAll(responses, arrival) == responses

\* comparePrograms behind Promise.all
comparePrograms(program1, program2, timeFilter, responses, arrival) ==
    LET joined == PromiseAll(responses, arrival)
        perf1 == analyzeProgramPerformance(program1, timeFilter, joined[1])
        perf2 == analyzeProgramPerformance(program2, timeFilter, joined[2])
        customerDiff == perf1.totalCustomers - perf2.totalCustomers
    IN  IF perf1.isNull \/ perf2.isNull THEN Null
        ELSE [isNull |-> FALSE,
              program1 |-> perf1,
              program2 |-> perf2,
              betterProgram |-> IF customerDiff > 0 THEN program1 ELSE program2,
              performanceGap |-> abs(customerDiff),
              percentageDiff |-> IF perf2.totalCustomers > 0
                                 THEN toFixed1(customerDiff, perf2.totalCustomers)
                                 ELSE -1]

FetchOf(table, column, name, timeFilter) ==
    [from |-> table, eq |-> column, value |-> name, send_date_quarter_1 |-> timeFilter]

s_Onboarding == <<"O", "n", "b", "o", "a", "r", "d", "i", "n", "g", "_", "D", "u", "n", "m", "m", "y", "_", "D", "a", "t", "a">>

ProgramFetch(name, timeFilter) == FetchOf(s_Onboarding, "program_name_1", name, timeFilter)

LessonFetch(name, timeFilter) == FetchOf(s_Onboarding, "lesson_name_1", name, timeFilter)

Arrived(k) == k \in ValuesOf(executed)

CompareUnchanged == UNCHANGED <<userQuery, liveValues, stmt, client, edge>>

\* processUserQuery with two matching programs calls comparePrograms, which
\* issues both fetches before it awaits
ComparePrograms ==
    /\ pc = "ask"
    /\ client = "comparePrograms"
    /\ Len(liveValues.programs) >= 2
    /\ dbQuery' = <<ProgramFetch(liveValues.programs[1], stmt),
                    ProgramFetch(liveValues.programs[2], stmt)>>
    /\ dbResult' = <<Pending, Pending>>
    /\ pc' = "comparing"
    /\ UNCHANGED <<executed, result, reply>>
    /\ CompareUnchanged

\* the response of one fetch in flight arrives
FetchReturns ==
    /\ client = "comparePrograms"
    /\ \E k \in 1..Len(dbQuery), response \in Responses :
          /\ ~Arrived(k)
          /\ dbResult' = [dbResult EXCEPT ![k] = response]
          /\ executed' = Append(executed, k)
    /\ UNCHANGED <<pc, dbQuery, result, reply>>
    /\ CompareUnchanged

\* Promise.all resolves; a comparison is formatted and returned, and a null one
\* falls through to analyzeProgramPerformance of the first matching program
PromiseAllResolves ==
    /\ pc = "comparing"
    /\ Arrived(1) /\ Arrived(2)
    /\ LET comparison == comparePrograms(liveValues.programs[1], liveValues.programs[2],
                                         stmt, dbResult, executed)
       IN  /\ result' = comparison
           /\ IF ~comparison.isNull
              THEN /\ reply' = Reply("comparison", comparison)
                   /\ pc' = "done"
                   /\ UNCHANGED <<dbQuery, dbResult>>
              ELSE /\ dbQuery' = Append(dbQuery, ProgramFetch(liveValues.programs[1], stmt))
                   /\ dbResult' = Append(dbResult, Pending)
                   /\ pc' = "analyzing program"
                   /\ UNCHANGED reply
    /\ UNCHANGED executed
    /\ CompareUnchanged

\* the general replies of processUserQuery (totals, lists, suggestions)
GeneralReply == Reply("general", Null)

\* analyzeProgramPerformance of the first matching program returns
AnalyzeProgramReturns ==
    /\ pc = "analyzing program"
    /\ Arrived(3)
    /\ LET performance == analyzeProgramPerformance(liveValues.programs[1], stmt, dbResult[3])
       IN  IF ~performance.isNull
           THEN /\ reply' = Reply("program performance", performance)
                /\ pc' = "done"
                /\ UNCHANGED <<dbQuery, dbResult>>
           ELSE IF Len(liveValues.lessons) > 0
           THEN /\ dbQuery' = Append(dbQuery, LessonFetch(liveValues.lessons[1], stmt))
                /\ dbResult' = Append(dbResult, Pending)
                /\ pc' = "analyzing lesson"
                /\ UNCHANGED reply
           ELSE /\ reply' = GeneralReply
                /\ pc' = "done"
                /\ UNCHANGED <<dbQuery, dbResult>>
    /\ UNCHANGED <<executed, result>>
    /\ CompareUnchanged

\* analyzeLessonPerformance of the first matching lesson returns
AnalyzeLessonReturns ==
    /\ pc = "analyzing lesson"
    /\ Arrived(4)
    /\ LET performance == analyzeLessonPerformance(liveValues.lessons[1], stmt, dbResult[4])
       IN  reply' = IF ~performance.isNull THEN Reply("lesson performance", performance)
                    ELSE GeneralReply
    /\ pc' = "done"
    /\ UNCHANGED <<dbQuery, dbResult, executed, result>>
    /\ CompareUnchanged

\* what findBestMatches(query, 'program') and findBestMatches(query, 'lesson')
\* returned for the comparison query
MatchingSets == {
    [programs |-> <<p_ASG_Primary_Path, p_LPW_Path>>, lessons |-> <<>>],
    [programs |-> <<p_LPW_Path, p_ASG_Primary_Path>>, lessons |-> <<l_Intro>>]}

InitCompare ==
    /\ userQuery = s_compare
    /\ liveValues \in MatchingSets
    /\ stmt \in {q_2026_Q2}
    /\ client = "comparePrograms"
    /\ edge = "none"
    /\ pc = "ask"
    /\ dbQuery = <<>>
    /\ dbResult = <<>>
    /\ executed = <<>>
    /\ reply = NoReply
    /\ result = Pending

NextCompare ==
    \/ ComparePrograms
    \/ FetchReturns
    \/ PromiseAllResolves
    \/ AnalyzeProgramReturns
    \/ AnalyzeLessonReturns

SpecCompare == InitCompare /\ [][NextCompare]_vars

(***************************************************************************)
(* Properties of the comparison.                                           *)
(***************************************************************************)
Joined == client = "comparePrograms" /\ pc \notin {"ask", "comparing"}

BothSucceeded ==
    \A k \in 1..2 : ~dbResult[k].error /\ Len(dbResult[k].data) > 0

\* in every order of arrival the first result belongs to the first program and
\* the second to the second
PairedByPosition ==
    Joined /\ BothSucceeded =>
        /\ pc = "done" /\ reply.reply = "comparison"
        /\ \A k \in 1..2 :
              LET perf == IF k = 1 THEN result.program1 ELSE result.program2
              IN  /\ perf.programName = liveValues.programs[k]
                  /\ dbQuery[k].value = liveValues.programs[k]
                  /\ perf.totalCustomers = Len(dbResult[k].data)
                  /\ perf.regionBreakdown = breakdown(dbResult[k].data, "acq_region_1")

\* C21: in a comparison the two fetches run concurrently and, in every order of
\* their completion, when both succeed the first result is paired with the first
\* program and the second with the second; when either fails or returns no rows
\* the comparison is aborted and the reply is a message about the comparison, not
\* an answer of another kind.
C21_PairedOrAborted ==
    /\ PairedByPosition
    /\ Joined /\ ~BothSucceeded /\ pc = "done" =>
          reply.reply \notin {"comparison", "program performance", "lesson performance", "general"}

(***************************************************************************)
(* The time filter of a query: extractTimeFilter of ChatBot.tsx, of        *)
(* QueryAnalyzer in Index.tsx and of QueryAnalyzer in queryAnalyzer.ts,    *)
(* and the fetch analyzeProgramPerformance builds from it.  In this        *)
(* specification liveValues holds the clock (new Date()) and stmt the      *)
(* program the query matched.                                              *)
(***************************************************************************)
MONTH_TO_QUARTER == <<
    [month |-> <<"j", "a", "n", "u", "a", "r", "y">>, quarter |-> <<"Q", "1">>],
    [month |-> <<"j", "a", "n">>, quarter |-> <<"Q", "1">>],
    [month |-> <<"f", "e", "b", "r", "u", "a", "r", "y">>, quarter |-> <<"Q", "1">>],
    [month |-> <<"f", "e", "b">>, quarter |-> <<"Q", "1">>],
    [month |-> <<"m", "a", "r", "c", "h">>, quarter |-> <<"Q", "1">>],
    [month |-> <<"m", "a", "r">>, quarter |-> <<"Q", "1">>],
    [month |-> <<"a", "p", "r", "i", "l">>, quarter |-> <<"Q", "2">>],
    [month |-> <<"a", "p", "r">>, quarter |-> <<"Q", "2">>],
    [month |-> <<"m", "a", "y">>, quarter |-> <<"Q", "2">>],
    [month |-> <<"j", "u", "n", "e">>, quarter |-> <<"Q", "2">>],
    [month |-> <<"j", "u", "n">>, quarter |-> <<"Q", "2">>],
    [month |-> <<"j", "u", "l", "y">>, quarter |-> <<"Q", "3">>],
    [month |-> <<"j", "u", "l">>, quarter |-> <<"Q", "3">>],
    [month |-> <<"a", "u", "g", "u", "s", "t">>, quarter |-> <<"Q", "3">>],
    [month |-> <<"a", "u", "g">>, quarter |-> <<"Q", "3">>],
    [month |-> <<"s", "e", "p", "t", "e", "m", "b", "e", "r">>, quarter |-> <<"Q", "3">>],
    [month |-> <<"s", "e", "p">>, quarter |-> <<"Q", "3">>],
    [month |-> <<"s", "e", "p", "t">>, quarter |-> <<"Q", "3">>],
    [month |-> <<"o", "c", "t", "o", "b", "e", "r">>, quarter |-> <<"Q", "4">>],
    [month |-> <<"o", "c", "t">>, quarter |-> <<"Q", "4">>],
    [month |-> <<"n", "o", "v", "e", "m", "b", "e", "r">>, quarter |-> <<"Q", "4">>],
    [month |-> <<"n", "o", "v">>, quarter |-> <<"Q", "4">>],
    [month |-> <<"d", "e", "c", "e", "m", "b", "e", "r">>, quarter |-> <<"Q", "4">>],
    [month |-> <<"d", "e", "c">>, quarter |-> <<"Q", "4">>]
>>

\* the alternatives of the month pattern of Index.tsx
MonthNames == <<
    <<"j", "a", "n", "u", "a", "r", "y">>,
    <<"f", "e", "b", "r", "u", "a", "r", "y">>,
    <<"m", "a", "r", "c", "h">>,
    <<"a", "p", "r", "i", "l">>,
    <<"m", "a", "y">>,
    <<"j", "u", "n", "e">>,
    <<"j", "u", "l", "y">>,
    <<"a", "u", "g", "u", "s", "t">>,
    <<"s", "e", "p", "t", "e", "m", "b", "e", "r">>,
    <<"o", "c", "t", "o", "b", "e", "r">>,
    <<"n", "o", "v", "e", "m", "b", "e", "r">>,
    <<"d", "e", "c", "e", "m", "b", "e", "r">>>>

s_this_quarter == <<"t", "h", "i", "s", " ", "q", "u", "a", "r", "t", "e", "r">>

s_current_quarter == <<"c", "u", "r", "r", "e", "n", "t", " ", "q", "u", "a", "r", "t", "e", "r">>

s_month_over_month == <<"m", "o", "n", "t", "h", " ", "o", "v", "e", "r", " ", "m", "o", "n", "t", "h">>

s_mom == <<"m", "o", "m">>

s_monthly == <<"m", "o", "n", "t", "h", "l", "y">>

s_month_over_month_filter == <<"m", "o", "n", "t", "h", "-", "o", "v", "e", "r", "-", "m", "o", "n", "t", "h">>

s_month_dash == <<"m", "o", "n", "t", "h", "-">>

\* a returned time filter, and the return of undefined
TimeFilter(s) == [timeFilter |-> s]

NoTimeFilter == [f \in {} |-> <<>>]

\* `${year}-Q${quarter}`
quarterOf(year, quarter) == year \o <<"-", "Q">> \o quarter

\* Math.ceil(month / 3) as the digit of the template string
ceilQuarter(month) == <<<<"1">>, <<"2">>, <<"3">>, <<"4">>>>[(month + 2) \div 3]

\* getCurrentQuarter
getCurrentQuarter(now) == quarterOf(now.year, ceilQuarter(now.month))

\* the first entry of MONTH_TO_QUARTER, in the order of Object.entries, whose
\* month the query includes; 0 for none
firstMonthIncluded(lowerQuery) ==
    LET at == {k \in 1..Len(MONTH_TO_QUARTER) : includes(lowerQuery, MONTH_TO_QUARTER[k].month)}
    IN  IF at = {} THEN 0 ELSE CHOOSE k \in at : \A l \in at : k <= l

\* extractTimeFilter of ChatBot.tsx
extractTimeFilter(query, now) ==
    LET lowerQuery == toLowerCase(query)
        quarter == quarterMatch(lowerQuery)
        m == firstMonthIncluded(lowerQuery)
    IN  IF quarter # <<>> THEN TimeFilter(quarterOf(now.year, quarter))
        ELSE IF m # 0 THEN TimeFilter(now.year \o <<"-">> \o MONTH_TO_QUARTER[m].quarter)
        ELSE IF includes(lowerQuery, s_this_quarter) \/ includes(lowerQuery, s_current_quarter)
        THEN TimeFilter(getCurrentQuarter(now))
        ELSE TimeFilter(getCurrentQuarter(now))

\* lowerQuery.match(/january|...|december/): the leftmost month name, <<>> for none
monthMatch(lowerQuery) ==
    LET nameAt(i) == {k \in 1..Len(MonthNames) :
                         /\ i + Len(MonthNames[k]) - 1 <= Len(lowerQuery)
                         /\ SubSeq(lowerQuery, i, i + Len(MonthNames[k]) - 1) = MonthNames[k]}
        at == {i \in 1..Len(lowerQuery) : nameAt(i) # {}}
        i == CHOOSE m \in at : \A n \in at : m <= n
    IN  IF at = {} THEN <<>>
        ELSE MonthNames[CHOOSE k \in nameAt(i) : \A l \in nameAt(i) : k <= l]

\* QueryAnalyzer.extractTimeFilter of Index.tsx
extractTimeFilter_Index(query, now) ==
    LET lowerQuery == toLowerCase(query)
        quarter == quarterMatch(lowerQuery)
    IN  IF \/ includes(lowerQuery, s_month_over_month)
           \/ includes(lowerQuery, s_mom)
           \/ includes(lowerQuery, s_monthly)
        THEN TimeFilter(s_month_over_month_filter)
        ELSE IF quarter # <<>> THEN TimeFilter(quarterOf(now.year, quarter))
        ELSE IF includes(lowerQuery, s_this_quarter) \/ includes(lowerQuery, s_current_quarter)
        THEN TimeFilter(getCurrentQuarter(now))
        ELSE IF monthMatch(lowerQuery) # <<>>
        THEN TimeFilter(s_month_dash \o monthMatch(lowerQuery))
        ELSE NoTimeFilter

\* QueryAnalyzer.extractTimeFilter of queryAnalyzer.ts
extractTimeFilter_queryAnalyzer(query, now) ==
    LET lowerQuery == toLowerCase(query)
        quarter == quarterMatch(lowerQuery)
    IN  IF quarter # <<>> THEN TimeFilter(quarterOf(now.year, quarter))
        ELSE IF includes(lowerQuery, s_this_quarter) \/ includes(lowerQuery, s_current_quarter)
        THEN TimeFilter(getCurrentQuarter(now))
        ELSE NoTimeFilter

\* the query analyzeProgramPerformance builds: .eq('send_date_quarter_1', timeFilter)
\* is added when timeFilter is truthy
programQuery(programName, filter) ==
    IF Has(filter, "timeFilter") /\ filter.timeFilter # <<>>
    THEN ProgramFetch(programName, filter.timeFilter)
    ELSE [from |-> s_Onboarding, eq |-> "program_name_1", value |-> programName]


TimePhrases == <<
    <<"Q", "2">>,
    <<"q", "u", "a", "r", "t", "e", "r", " ", "3">>,
    <<"m", "a", "y">>,
    <<"d", "e", "c", "e", "m", "b", "e", "r">>,
    <<"t", "h", "i", "s", " ", "q", "u", "a", "r", "t", "e", "r">>,
    <<"c", "u", "r", "r", "e", "n", "t", " ", "q", "u", "a", "r", "t", "e", "r">>,
    <<"m", "o", "n", "t", "h", "l", "y">>,
    <<"H", "o", "w", " ", "i", "s", " ", "A", "S", "G", " ", "P", "r", "i", "m", "a", "r", "y", " ", "P", "a", "t", "h", " ", "d", "o", "i", "n", "g">>,
    <<"h", "e", "l", "l", "o">>,
    <<"L", "P", "W", " ", "P", "a", "t", "h">>>>

RECURSIVE TimeQueriesOfLen(_)
TimeQueriesOfLen(n) ==
    IF n = 1 THEN {TimePhrases[i] : i \in 1..Len(TimePhrases)}
    ELSE {q \o <<" ">> \o TimePhrases[i] : q \in TimeQueriesOfLen(n - 1), i \in 1..Len(TimePhrases)}

TimeQueries == UNION {TimeQueriesOfLen(n) : n \in 1..MaxPhrases}

\* new Date(): a year and a month of the first and of the last quarter
Clocks == {[year |-> y, month |-> m] : y \in Years, m \in {2, 11}}

TimeUnchanged == UNCHANGED <<userQuery, liveValues, stmt, client, edge, executed, dbResult, reply>>

\* processUserQuery of ChatBot.tsx extracts the time filter
ExtractTimeFilter ==
    /\ pc = "ask"
    /\ client = "extractTimeFilter"
    /\ result' = extractTimeFilter(userQuery, liveValues)
    /\ pc' = "extracted"
    /\ UNCHANGED dbQuery
    /\ TimeUnchanged

\* analyzeProgramPerformance builds its query from the time filter
AnalyzeProgramPerformance ==
    /\ pc = "extracted"
    /\ client = "extractTimeFilter"
    /\ dbQuery' = <<programQuery(stmt, result)>>
    /\ pc' = "done"
    /\ UNCHANGED result
    /\ TimeUnchanged

ExtractTimeFilter_Index ==
    /\ pc = "ask"
    /\ client = "extractTimeFilter_Index"
    /\ result' = extractTimeFilter_Index(userQuery, liveValues)
    /\ pc' = "done"
    /\ UNCHANGED dbQuery
    /\ TimeUnchanged

ExtractTimeFilter_queryAnalyzer ==
    /\ pc = "ask"
    /\ client = "extractTimeFilter_queryAnalyzer"
    /\ result' = extractTimeFilter_queryAnalyzer(userQuery, liveValues)
    /\ pc' = "done"
    /\ UNCHANGED dbQuery
    /\ TimeUnchanged

InitTime ==
    /\ userQuery \in TimeQueries
    /\ liveValues \in Clocks
    /\ stmt = p_ASG_Primary_Path
    /\ client \in {"extractTimeFilter", "extractTimeFilter_Index", "extractTimeFilter_queryAnalyzer"}
    /\ edge = "none"
    /\ pc = "ask"
    /\ dbQuery = <<>>
    /\ executed = NotExecuted
    /\ dbResult = NoResult
    /\ reply = NoReply
    /\ result = Pending

NextTime ==
    \/ ExtractTimeFilter
    \/ AnalyzeProgramPerformance
    \/ ExtractTimeFilter_Index
    \/ ExtractTimeFilter_queryAnalyzer

SpecTime == InitTime /\ [][NextTime]_vars

(***************************************************************************)
(* Properties of the time filter.                                          *)
(***************************************************************************)
Extracted(c) == client = c /\ pc \in {"extracted", "done"} /\ liveValues \in Clocks

TimeClients == {"extractTimeFilter", "extractTimeFilter_Index", "extractTimeFilter_queryAnalyzer"}

QuarterToken == quarterMatch(toLowerCase(userQuery))

\* the entries of MONTH_TO_QUARTER whose month is a word of the query
MonthWords ==
    {k \in 1..Len(MONTH_TO_QUARTER) :
        MONTH_TO_QUARTER[k].month \in ValuesOf(split(toLowerCase(userQuery)))}

\* the entries of MONTH_TO_QUARTER whose month occurs anywhere in the query
MonthLetters ==
    {k \in 1..Len(MONTH_TO_QUARTER) : includes(toLowerCase(userQuery), MONTH_TO_QUARTER[k].month)}

CurrentQuarterPhrase ==
    \/ includes(toLowerCase(userQuery), s_this_quarter)
    \/ includes(toLowerCase(userQuery), s_current_quarter)

CurrentQuarter == TimeFilter(getCurrentQuarter(liveValues))

\* C22: every extractTimeFilter applies its rules in one priority: a quarter token
\* gives the token's quarter whatever else the query holds; without one, a month
\* name gives the quarter of that month; without either, 'this quarter' or
\* 'current quarter' gives the current quarter.
C22_QuarterThenMonthThenPhrase ==
    \A c \in TimeClients :
        Extracted(c) =>
            /\ QuarterToken # <<>> =>
                  result = TimeFilter(quarterOf(liveValues.year, QuarterToken))
            /\ QuarterToken = <<>> /\ MonthWords # {} =>
                  \E k \in MonthWords :
                      result = TimeFilter(liveValues.year \o <<"-">> \o MONTH_TO_QUARTER[k].quarter)
            /\ QuarterToken = <<>> /\ MonthLetters = {} /\ CurrentQuarterPhrase =>
                  result = CurrentQuarter

\* the priority of ChatBot.tsx alone
QuarterThenMonthThenPhrase_ChatBot ==
    Extracted("extractTimeFilter") =>
        /\ QuarterToken # <<>> =>
              result = TimeFilter(quarterOf(liveValues.year, QuarterToken))
        /\ QuarterToken = <<>> /\ MonthWords # {} =>
              \E k \in MonthLetters :
                  result = TimeFilter(liveValues.year \o <<"-">> \o MONTH_TO_QUARTER[k].quarter)
        /\ QuarterToken = <<>> /\ MonthLetters = {} => result = CurrentQuarter

NoTimeReference ==
    /\ QuarterToken = <<>>
    /\ MonthLetters = {}
    /\ ~CurrentQuarterPhrase
    /\ \A w \in {s_month_over_month, s_mom, s_monthly} : ~includes(toLowerCase(userQuery), w)

\* C23: for a query with no time reference the time filter of ChatBot.tsx is
\* absent, and the fetch that follows is not restricted to a quarter.
C23_AbsentWhenNoTimeReference ==
    Extracted("extractTimeFilter") /\ NoTimeReference =>
        /\ ~Has(result, "timeFilter")
        /\ pc = "done" => ~Has(dbQuery[1], "send_date_quarter_1")

\* C30: the month rule of ChatBot.tsx fires only on a month named as a word: with
\* no quarter token and no month word the result is the current quarter.
C30_MonthOnlyAsWord ==
    Extracted("extractTimeFilter") /\ QuarterToken = <<>> /\ MonthWords = {} =>
        result = CurrentQuarter

(***************************************************************************)
(* The conversation memory of a chat session: the hooks                    *)
(* useIntelligentMemory, useEnhancedMemory and useConversationContext.     *)
(* In this specification result holds the state of the hook (memory or     *)
(* context) and executed the arguments of the calls made so far, oldest    *)
(* first; new Date() of a call is the number of the call.                  *)
(***************************************************************************)
MaxCalls == 6

MaxQueries == 11

minOf(a, b) == IF a <= b THEN a ELSE b

\* xs.slice(0, end) with the element at end kept
sliceThrough(xs, end) ==
    SubSeq(xs, 1, IF end < 0 THEN maxOf(Len(xs) + end + 1, 0) ELSE minOf(end + 1, Len(xs)))

\* xs.slice(0, end)
slice(xs, end) ==
    SubSeq(xs, 1, IF end < 0 THEN maxOf(Len(xs) + end, 0) ELSE minOf(end, Len(xs)))

\* the initial memory of useIntelligentMemory
ConversationMemory ==
    [recentQuestions |-> <<>>,
     exploredEntities |-> [programs |-> <<>>, lessons |-> <<>>, regions |-> <<>>],
     currentContext |-> [activeFilters |-> <<>>],
     dataInsights |-> <<>>]

\* [...new Set([...explored, ...entities[kind]])] when entities?.[kind] is given
explore(explored, entities, kind) ==
    IF Has(entities, kind) THEN unique(explored \o entities[kind]) ELSE explored

\* the updater of addQuestion
addQuestion(prev, question, entities) ==
    [prev EXCEPT
        !.recentQuestions = <<question>> \o slice(prev.recentQuestions, 4),
        !.exploredEntities =
            [programs |-> explore(prev.exploredEntities.programs, entities, "programs"),
             lessons |-> explore(prev.exploredEntities.lessons, entities, "lessons"),
             regions |-> explore(prev.exploredEntities.regions, entities, "regions")]]

\* the initial memory of useEnhancedMemory
EnhancedConversationMemory ==
    [recentQueries |-> <<>>,
     discoveredEntities |-> [programs |-> {}, regions |-> {}, categories |-> {}, quarters |-> {}],
     conversationContext |-> <<>>,
     insights |-> <<>>]

s_americas == <<"a", "m", "e", "r", "i", "c", "a", "s">>

s_europe == <<"e", "u", "r", "o", "p", "e">>

s_asia == <<"a", "s", "i", "a">>

s_africa == <<"a", "f", "r", "i", "c", "a">>

\* the set of discoveredEntities an entity is added to; "none" when it is dropped
discoveredKind(entity) ==
    LET entityLower == toLowerCase(entity)
    IN  IF includes(entityLower, s_asg) \/ includes(entityLower, s_lwp) THEN "programs"
        ELSE IF \E r \in {s_americas, s_europe, s_asia, s_africa} : includes(entityLower, r)
        THEN "regions"
        ELSE IF \E d \in QuarterDigits : includes(entityLower, <<"q", d>>) THEN "quarters"
        ELSE "none"

\* entities.forEach(...) over the sets of discoveredEntities
discover(discovered, entities) ==
    [kind \in DOMAIN discovered |->
        discovered[kind] \cup {entities[i] : i \in {j \in 1..Len(entities) :
                                                    discoveredKind(entities[j]) = kind}}]

\* the updater of addQueryToMemory
addQueryToMemory(prev, query, intent, entities, insights, now) ==
    [recentQueries |->
        <<[query |-> query, intent |-> intent, entities |-> entities, timestamp |-> now]>>
           \o slice(prev.recentQueries, 9),
     discoveredEntities |-> discover(prev.discoveredEntities, entities),
     conversationContext |-> <<intent>> \o slice(prev.conversationContext, 4),
     insights |-> insights \o slice(prev.insights, 19 - Len(insights))]

\* the initial context of useConversationContext
ConversationContext == [turns |-> <<>>]

\* the updater of addTurn
addTurn(prev, turn) ==
    [turns |-> Append(prev.turns, turn),
     currentFocus |-> [entities |-> turn.queryContext.entities,
                       dimensions |-> turn.queryContext.dimensions,
                       timeContext |-> turn.queryContext.timeFilter]]

\* getRecentContext(count)
getRecentContext(context, count) ==
    SubSeq(context.turns, maxOf(Len(context.turns) - count, 0) + 1, Len(context.turns))

\* the questions and the entities handed to addQuestion
Questions == {u_hello, u_compare_by_region}

QuestionEntities == {NoFilters, [programs |-> <<p_ASG_Primary_Path>>]}

\* the insights of the n-th call: the call and the place in its list
InsightsOf(n, len) == [i \in 1..len |-> [call |-> n, place |-> i]]

\* the arguments of addQueryToMemory: a query with two insights, one with twenty
MemoryQueries(n) == {
    [query |-> u_compare_by_region, intent |-> "comparison",
     entities |-> <<p_ASG_Primary_Path, r_Americas>>, insights |-> InsightsOf(n, 2)],
    [query |-> s_compare, intent |-> "trend",
     entities |-> <<q_2026_Q2>>, insights |-> InsightsOf(n, 20)]}

\* the turns handed to addTurn
Turns(n) ==
    {[userQuery |-> q, botResponse |-> s_Unknown,
      queryContext |-> [type |-> "general", entities |-> <<>>, dimensions |-> <<>>,
                        timeFilter |-> q_2026_Q2],
      timestamp |-> n] : q \in Questions}

MemoryUnchanged == UNCHANGED <<userQuery, liveValues, stmt, client, edge, pc, dbQuery, dbResult, reply>>

AddQuestion ==
    /\ client = "useIntelligentMemory"
    /\ Len(executed) < MaxCalls
    /\ \E question \in Questions, entities \in QuestionEntities :
          /\ result' = addQuestion(result, question, entities)
          /\ executed' = Append(executed, [question |-> question, entities |-> entities])
    /\ MemoryUnchanged

AddQueryToMemory ==
    /\ client = "useEnhancedMemory"
    /\ Len(executed) < MaxQueries
    /\ \E call \in MemoryQueries(Len(executed) + 1) :
          /\ result' = addQueryToMemory(result, call.query, call.intent, call.entities,
                                        call.insights, Len(executed) + 1)
          /\ executed' = Append(executed, call)
    /\ MemoryUnchanged

AddTurn ==
    /\ client = "useConversationContext"
    /\ Len(executed) < MaxCalls
    /\ \E turn \in Turns(Len(executed) + 1) :
          /\ result' = addTurn(result, turn)
          /\ executed' = Append(executed, turn)
    /\ MemoryUnchanged

InitMemory ==
    /\ client \in {"useIntelligentMemory", "useEnhancedMemory", "useConversationContext"}
    /\ result = CASE client = "useIntelligentMemory" -> ConversationMemory
                  [] client = "useEnhancedMemory" -> EnhancedConversationMemory
                  [] OTHER -> ConversationContext
    /\ executed = <<>>
    /\ userQuery = <<>>
    /\ liveValues = <<>>
    /\ stmt = <<>>
    /\ edge = "none"
    /\ pc = "idle"
    /\ dbQuery = <<>>
    /\ dbResult = NoResult
    /\ reply = NoReply

NextMemory ==
    \/ AddQuestion
    \/ AddQueryToMemory
    \/ AddTurn

SpecMemory == InitMemory /\ [][NextMemory]_vars

(***************************************************************************)
(* Properties of the memory.                                               *)
(***************************************************************************)
\* the last n calls, newest first
NewestFirst(n) ==
    [i \in 1..minOf(Len(executed), n) |-> executed[Len(executed) + 1 - i]]

\* C24: after k calls recentQuestions holds the last min(k, 5) questions,
\* recentQueries the last min(k, 10) queries and conversationContext the last
\* min(k, 5) intents, newest first.
C24_RollingWindows ==
    /\ client = "useIntelligentMemory" =>
          result.recentQuestions = [i \in 1..minOf(Len(executed), 5) |-> NewestFirst(5)[i].question]
    /\ client = "useEnhancedMemory" =>
          /\ result.recentQueries =
                [i \in 1..minOf(Len(executed), 10) |->
                    [query |-> NewestFirst(10)[i].query,
                     intent |-> NewestFirst(10)[i].intent,
                     entities |-> NewestFirst(10)[i].entities,
                     timestamp |-> Len(executed) + 1 - i]]
          /\ result.conversationContext =
                [i \in 1..minOf(Len(executed), 5) |-> NewestFirst(5)[i].intent]

C24_Witness ==
    /\ client = "useEnhancedMemory"
    /\ Len(executed) = 11
    /\ Len(result.recentQueries) = 10
    /\ result.recentQueries[10].timestamp = 2
    /\ Len(result.conversationContext) = 5

\* C25: the turns of the conversation context are a window: once MaxCalls turns
\* have been added the first of them is no longer stored.
C25_TurnsWithinWindow ==
    client = "useConversationContext" /\ Len(executed) = MaxCalls =>
        /\ Len(result.turns) < MaxCalls
        /\ result.turns[1] # executed[1]

\* C28: whatever the length of the insights of each call, memory.insights never
\* holds more than 20 entries, and the insights of the latest call come first.
C28_InsightsAtMostTwenty ==
    client = "useEnhancedMemory" /\ executed # <<>> =>
        /\ Len(result.insights) <= 20
        /\ LET latest == executed[Len(executed)].insights
           IN  SubSeq(result.insights, 1, Len(latest)) = latest

(***************************************************************************)
(* The two revisions of prepareFunnelData, and the groups of a breakdown.  *)
(***************************************************************************)
Stages == {"deliveries", "opens", "clicks", "adoptions"}

\* C26: both revisions of prepareFunnelData give the same four stage counts for
\* every row list, and both compute adoptionRate as adoptions / deliveries x 100.
C26_AggregatorsAgree ==
    pc = "done" /\ client \in {"llmQueryService", "part_011"} =>
        LET a == prepareFunnelData(ArrivedRows)
            b == prepareFunnelData_part011(ArrivedRows)
        IN  /\ \A stage \in Stages : a[stage] = b[stage]
            /\ RateIs(a.adoptionRate, a.adoptions, a.deliveries)
            /\ RateIs(b.adoptionRate, b.adoptions, b.deliveries)

RECURSIVE SumOver(_, _)
SumOver(f, S) ==
    IF S = {} THEN 0
    ELSE LET k == CHOOSE x \in S : TRUE IN f[k] + SumOver(f, S \ {k})

\* C27: processDimensionalData partitions the rows: every row is in exactly one
\* group, no group is empty, and for each stage the counts of the groups add up
\* to the count prepareFunnelData gives for the whole list.
C27_GroupsPartitionRows ==
    BreakdownAnswered =>
        LET rows == ArrivedRows
            data == result.visualData.data
            groups == dimensionGroups(rows)
            whole == prepareFunnelData(rows)
        IN  /\ DOMAIN groups = DOMAIN data
            /\ \A k \in DOMAIN groups : groups[k] # <<>>
            /\ \A i \in 1..Len(rows) :
                  Cardinality({k \in DOMAIN groups : \E j \in 1..Len(groups[k]) : groups[k][j] = rows[i]}) = 1
            /\ SumOver([k \in DOMAIN groups |-> Len(groups[k])], DOMAIN groups) = Len(rows)
            /\ \A stage \in Stages :
                  SumOver([k \in DOMAIN data |-> data[k][stage]], DOMAIN data) = whole[stage]

\* two groups, one of them of several rows, and counts in two stages
C27_Witness ==
    /\ BreakdownAnswered
    /\ Cardinality(DOMAIN result.visualData.data) >= 2
    /\ \E k \in DOMAIN dimensionGroups(ArrivedRows) : Len(dimensionGroups(ArrivedRows)[k]) >= 2
    /\ prepareFunnelData(ArrivedRows).deliveries > 0
    /\ prepareFunnelData(ArrivedRows).opens > 0

(***************************************************************************)
(* A turn of the chat: handleSendMessage of ChatBot.tsx, handleSendMessage *)
(* with processIntelligentQuery of part_005, and handleDeepDive.  In this  *)
(* specification                                                           *)
(*   userQuery   holds the text of the input box,                          *)
(*   result      the state of the component: messages, isLoading and the   *)
(*               toasts shown,                                             *)
(*   liveValues  the memory of useEnhancedMemory,                          *)
(*   stmt        the value the running handler carries over its awaits,    *)
(*   pc          the await the running handler is suspended at,            *)
(*   executed    the calls of the handlers so far, each with the number of *)
(*               messages it found.                                        *)
(* The input, the send button and the deep dive buttons are disabled while *)
(* isLoading is true, so a handler starts only when none is running.       *)
(***************************************************************************)
MaxTurns == 3

UserMessage(content) == [type |-> "user", content |-> content]

BotMessage(content, deepDiveOptions) ==
    [type |-> "bot", content |-> content, deepDiveOptions |-> deepDiveOptions]

\* the component after construction: the greeting of the bot
ChatState ==
    [messages |-> <<BotMessage("greeting", <<>>)>>, isLoading |-> FALSE, toasts |-> 0]

\* setMessages(prev => [...prev, message])
appendMessage(ui, message) == [ui EXCEPT !.messages = Append(@, message)]

\* the handlers with their finally block left out
finallyBlockSkipped(ui) == ui

\* finally { setIsLoading(false) }
finallyBlock(ui) == [ui EXCEPT !.isLoading = FALSE]

\* catch (error) { toast(...) }
catchBlock(ui) == [ui EXCEPT !.toasts = @ + 1]

\* handleSendMessage up to its await
sendMessage(ui, input) ==
    [appendMessage(ui, UserMessage(input)) EXCEPT !.isLoading = TRUE]

\* handleSendMessage behind its await
botReplies(ui, content, deepDiveOptions) ==
    finallyBlock(appendMessage(ui, BotMessage(content, deepDiveOptions)))

\* what is typed into the input box
ChatInputs == {<<" ">>, u_compare_by_region}

\* what processUserQuery of ChatBot.tsx resolves to; its catch returns a message
ChatBotResponses == {"program performance", "unexpected error"}

\* the plan analyzeQuery resolves to
QueryPlans ==
    {[intent |-> "comparison", entities |-> <<p_ASG_Primary_Path, r_Americas>>]}

\* what executeQueryPlan resolves to
QueryResults(n) ==
    {[insights |-> <<>>, visualData |-> FALSE],
     [insights |-> InsightsOf(n, 2), visualData |-> TRUE]}

\* what DeepDiveService.analyzeQueryContext offers
DeepDiveOptionLists == {<<>>, <<"regional">>}

Call(handler, input) == [handler |-> handler, input |-> input, before |-> Len(result.messages)]

Idle == pc = "idle" /\ ~result.isLoading

\* onChange of the input box
TypeInput ==
    /\ Idle
    /\ Len(executed) < MaxTurns
    /\ \E text \in ChatInputs : userQuery' = text
    /\ UNCHANGED <<liveValues, stmt, client, edge, pc, dbQuery, executed, dbResult, reply, result>>

\* handleSendMessage of both components up to its await
Turn_HandleSendMessage ==
    /\ Idle
    /\ Len(executed) < MaxTurns
    /\ executed' = Append(executed, Call("handleSendMessage", userQuery))
    /\ IF trim(userQuery, JsWhiteSpace) = <<>>
       THEN UNCHANGED <<userQuery, result, stmt, pc>>
       ELSE /\ result' = sendMessage(result, userQuery)
            /\ userQuery' = <<>>
            /\ stmt' = [query |-> userQuery]
            /\ pc' = IF client = "ChatBot" THEN "processUserQuery" ELSE "analyzeQuery"
    /\ UNCHANGED <<liveValues, client, edge, dbQuery, dbResult, reply>>

\* processUserQuery resolves and handleSendMessage of ChatBot.tsx goes on
Turn_ProcessUserQueryReturns ==
    /\ pc = "processUserQuery"
    /\ \E botResponse \in ChatBotResponses : result' = botReplies(result, botResponse, <<>>)
    /\ pc' = "idle"
    /\ UNCHANGED <<userQuery, liveValues, stmt, client, edge, dbQuery, executed, dbResult, reply>>

\* LLMQueryService.analyzeQuery returns or fails in processIntelligentQuery
Turn_AnalyzeQueryReturns ==
    /\ pc = "analyzeQuery"
    /\ \/ \E queryPlan \in QueryPlans :
            /\ stmt' = [query |-> stmt.query, queryPlan |-> queryPlan]
            /\ pc' = "executeQueryPlan"
       \/ /\ pc' = "fallbackSuggestions"
          /\ UNCHANGED stmt
    /\ UNCHANGED <<userQuery, liveValues, client, edge, dbQuery, executed, dbResult, reply, result>>

\* LLMQueryService.executeQueryPlan returns, the memory is updated and the
\* suggestions are asked for; or it fails
Turn_ExecuteQueryPlanReturns ==
    /\ pc = "executeQueryPlan"
    /\ \/ \E queryResult \in QueryResults(Len(executed)) :
            /\ liveValues' = addQueryToMemory(liveValues, stmt.query, stmt.queryPlan.intent,
                                 stmt.queryPlan.entities, queryResult.insights, Len(executed))
            /\ stmt' = [query |-> stmt.query, queryPlan |-> stmt.queryPlan, result |-> queryResult]
            /\ pc' = "generateSmartSuggestions"
       \/ /\ pc' = "fallbackSuggestions"
          /\ UNCHANGED <<liveValues, stmt>>
    /\ UNCHANGED <<userQuery, client, edge, dbQuery, executed, dbResult, reply, result>>

\* generateSmartSuggestions resolves, processIntelligentQuery returns its
\* response and handleSendMessage of part_005 goes on
Turn_SmartSuggestionsReturn ==
    /\ pc = "generateSmartSuggestions"
    /\ \E deepDiveOptions \in DeepDiveOptionLists :
          result' = botReplies(result,
                               IF stmt.result.insights # <<>> THEN "insights" ELSE "no insights",
                               deepDiveOptions)
    /\ pc' = "idle"
    /\ UNCHANGED <<userQuery, liveValues, stmt, client, edge, dbQuery, executed, dbResult, reply>>

\* the catch of processIntelligentQuery: the suggestions resolve and the
\* fallback response is returned
Turn_FallbackSuggestionsReturn ==
    /\ pc = "fallbackSuggestions"
    /\ result' = botReplies(result, "fallback", <<>>)
    /\ pc' = "idle"
    /\ UNCHANGED <<userQuery, liveValues, stmt, client, edge, dbQuery, executed, dbResult, reply>>

\* handleDeepDive up to its first await, from a button of a bot message
Turn_HandleDeepDive ==
    /\ Idle
    /\ client = "part_005"
    /\ Len(executed) < MaxTurns
    /\ \E k \in 1..Len(result.messages) :
          /\ result.messages[k].type = "bot"
          /\ \E o \in 1..Len(result.messages[k].deepDiveOptions) :
                /\ stmt' = [option |-> result.messages[k].deepDiveOptions[o]]
                /\ executed' = Append(executed,
                                  Call("handleDeepDive",
                                       IF k > 1 /\ result.messages[k - 1].type = "user"
                                       THEN result.messages[k - 1].content ELSE <<>>))
    /\ result' = [result EXCEPT !.isLoading = TRUE]
    /\ pc' = "deepDive analyzeQuery"
    /\ UNCHANGED <<userQuery, liveValues, client, edge, dbQuery, dbResult, reply>>

\* analyzeQuery returns and the query is sent, or it fails
Turn_DeepDiveAnalyzeReturns ==
    /\ pc = "deepDive analyzeQuery"
    /\ \/ /\ pc' = "deepDive rpc"
          /\ UNCHANGED result
       \/ /\ result' = finallyBlock(catchBlock(result))
          /\ pc' = "idle"
    /\ UNCHANGED <<userQuery, liveValues, stmt, client, edge, dbQuery, executed, dbResult, reply>>

\* execute_safe_query returns rows, returns an error or fails
Turn_DeepDiveRpcReturns ==
    /\ pc = "deepDive rpc"
    /\ \/ result' = botReplies(result, stmt.option, <<>>)
       \/ result' = finallyBlock(catchBlock(result))
    /\ pc' = "idle"
    /\ UNCHANGED <<userQuery, liveValues, stmt, client, edge, dbQuery, executed, dbResult, reply>>

InitChat ==
    /\ client \in {"ChatBot", "part_005"}
    /\ userQuery = <<>>
    /\ result = ChatState
    /\ liveValues = EnhancedConversationMemory
    /\ stmt = <<>>
    /\ pc = "idle"
    /\ executed = <<>>
    /\ edge = "none"
    /\ dbQuery = <<>>
    /\ dbResult = NoResult
    /\ reply = NoReply

\* the steps in which an external call returns or fails
Returns ==
    \/ Turn_ProcessUserQueryReturns
    \/ Turn_AnalyzeQueryReturns
    \/ Turn_ExecuteQueryPlanReturns
    \/ Turn_SmartSuggestionsReturn
    \/ Turn_FallbackSuggestionsReturn
    \/ Turn_DeepDiveAnalyzeReturns
    \/ Turn_DeepDiveRpcReturns

NextChat ==
    \/ TypeInput
    \/ Turn_HandleSendMessage
    \/ Turn_HandleDeepDive
    \/ Turn_ProcessUserQueryReturns
    \/ Turn_AnalyzeQueryReturns
    \/ Turn_ExecuteQueryPlanReturns
    \/ Turn_SmartSuggestionsReturn
    \/ Turn_FallbackSuggestionsReturn
    \/ Turn_DeepDiveAnalyzeReturns
    \/ Turn_DeepDiveRpcReturns

SpecChat == InitChat /\ [][NextChat]_vars

\* every external call returns or fails in the end
FairChat == SpecChat /\ WF_vars(Returns)

(***************************************************************************)
(* Properties of a turn.                                                   *)
(***************************************************************************)
\* the messages appended since the i-th call and before the next one
AppendedBy(i) ==
    SubSeq(result.messages, executed[i].before + 1,
           IF i < Len(executed) THEN executed[i + 1].before ELSE Len(result.messages))

Blank(text) == trim(text, JsWhiteSpace) = <<>>

\* a call with non-blank input appends one user message, followed by at most one
\* bot message; a blank one appends nothing
TurnShape ==
    /\ result.isLoading <=> pc # "idle"
    /\ \A i \in 1..Len(executed) :
          executed[i].handler = "handleSendMessage" =>
              IF Blank(executed[i].input) THEN AppendedBy(i) = <<>>
              ELSE /\ Len(AppendedBy(i)) \in {1, 2}
                   /\ AppendedBy(i)[1] = UserMessage(executed[i].input)
                   /\ Len(AppendedBy(i)) = 2 => AppendedBy(i)[2].type = "bot"
                   /\ Len(AppendedBy(i)) = 1 => i = Len(executed) /\ result.isLoading

\* a call with blank input changes nothing of the component
BlankChangesNothing ==
    Idle /\ Blank(userQuery) /\ Len(executed') = Len(executed) + 1
        /\ executed'[Len(executed')].handler = "handleSendMessage"
        => UNCHANGED <<userQuery, result, liveValues, pc>>

Loading == result.isLoading

====
